---- MODULE Spec2Model ----
(***************************************************************************)
(* repo2context: the directory scan (pkg/scanner), the ignore rules        *)
(* (pkg/gitignore), the token annotation pass (pkg/core) and the rendering *)
(* of the directory tree.                                                  *)
(*                                                                         *)
(* A Go string is modelled as the sequence of its bytes, each byte a       *)
(* one-character TLA+ string, so that splitting, trimming, glob matching,  *)
(* sorting and formatting are computed on the characters as the code does. *)
(***************************************************************************)
EXTENDS Integers, Sequences, FiniteSets, Bags, TLC

VARIABLES
    fsTree,      \* the relative paths of the entries below the scan root
    ignoreFile,  \* the .gitignore at the ignore base path: missing, unreadable, or its bytes
    gitPrefix,   \* path from the git root to the scan root ("" when the scan root is the base)
    options,     \* ScanOptions plus the CountTokens flag of FlagConfig
    pc,          \* position in processDirectory / in the function under test
    gi,          \* the GitIgnore instance: its stored patterns
    todo,        \* invocations of the walk callback that filepath.WalkDir still has to make
    faults,      \* number of I/O failures the environment has injected so far
    result,      \* the ScanResult under construction
    call         \* last call of a function exercised on its own: arguments and return value

vars == <<fsTree, ignoreFile, gitPrefix, options, pc, gi, todo, faults, result, call>>

----------------------------------------------------------------------------
(* Bytes and strings *)

\* byte values of the characters used in names, patterns and file contents
Ord(c) ==
    CASE c = "\n" -> 10 [] c = " " -> 32 [] c = "#" -> 35 [] c = "(" -> 40
      [] c = ")" -> 41 [] c = "*" -> 42 [] c = "-" -> 45 [] c = "." -> 46
      [] c = "/" -> 47 [] c = "0" -> 48 [] c = "1" -> 49 [] c = "2" -> 50
      [] c = "3" -> 51 [] c = "4" -> 52 [] c = "5" -> 53 [] c = "6" -> 54
      [] c = "7" -> 55 [] c = "8" -> 56 [] c = "9" -> 57 [] c = ":" -> 58
      [] c = "?" -> 63 [] c = "\t" -> 9
      [] c = "a" -> 97 [] c = "b" -> 98 [] c = "c" -> 99 [] c = "d" -> 100
      [] c = "e" -> 101 [] c = "g" -> 103 [] c = "h" -> 104 [] c = "i" -> 105
      [] c = "k" -> 107 [] c = "l" -> 108 [] c = "m" -> 109 [] c = "n" -> 110
      [] c = "o" -> 111 [] c = "r" -> 114 [] c = "s" -> 115 [] c = "t" -> 116
      [] c = "u" -> 117 [] c = "x" -> 120 [] c = "z" -> 122

Separator == "/"

\* Go's string comparison a < b: bytewise, a proper prefix is smaller
RECURSIVE StrLess(_, _)
StrLess(a, b) ==
    IF b = <<>> THEN FALSE
    ELSE IF a = <<>> THEN TRUE
    ELSE IF a[1] = b[1] THEN StrLess(Tail(a), Tail(b))
    ELSE Ord(a[1]) < Ord(b[1])

\* sort.Strings on a set of distinct strings: the ascending sequence
RECURSIVE SortStrings(_)
SortStrings(S) ==
    IF S = {} THEN <<>>
    ELSE LET m == CHOOSE x \in S : \A y \in S \ {x} : StrLess(x, y)
         IN  <<m>> \o SortStrings(S \ {m})

\* strings.Split(s, sep) for a one-byte separator
RECURSIVE SplitFrom(_, _, _)
SplitFrom(s, sep, cur) ==
    IF s = <<>> THEN <<cur>>
    ELSE IF s[1] = sep THEN <<cur>> \o SplitFrom(Tail(s), sep, <<>>)
    ELSE SplitFrom(Tail(s), sep, Append(cur, s[1]))

Split(s, sep) == SplitFrom(s, sep, <<>>)

\* strings.Join(parts, sep)
RECURSIVE Join(_, _)
Join(parts, sep) ==
    IF parts = <<>> THEN <<>>
    ELSE IF Len(parts) = 1 THEN parts[1]
    ELSE parts[1] \o <<sep>> \o Join(Tail(parts), sep)

\* strings.Repeat(s, n)
RECURSIVE Repeat(_, _)
Repeat(s, n) == IF n <= 0 THEN <<>> ELSE s \o Repeat(s, n - 1)

\* strings.HasPrefix(s, prefix)
HasPrefix(s, prefix) ==
    Len(s) >= Len(prefix) /\ SubSeq(s, 1, Len(prefix)) = prefix

\* strings.Trim(s, cutset) for a set of bytes
RECURSIVE TrimLeft(_, _)
TrimLeft(s, cut) ==
    IF s # <<>> /\ s[1] \in cut THEN TrimLeft(Tail(s), cut) ELSE s

RECURSIVE TrimRight(_, _)
TrimRight(s, cut) ==
    IF s # <<>> /\ s[Len(s)] \in cut THEN TrimRight(SubSeq(s, 1, Len(s) - 1), cut) ELSE s

Trim(s, cut) == TrimRight(TrimLeft(s, cut), cut)

\* strings.TrimSpace(s)
TrimSpace(s) == Trim(s, {" ", "\t", "\n", "\r", "\f"})

\* fmt's %d for a non-negative integer
Digit(d) == <<"0", "1", "2", "3", "4", "5", "6", "7", "8", "9">>[d + 1]

RECURSIVE Itoa(_)
Itoa(n) == IF n < 10 THEN <<Digit(n)>> ELSE Itoa(n \div 10) \o <<Digit(n % 10)>>

\* dropCR of bufio: the line without one trailing carriage return
DropCR(line) ==
    IF line # <<>> /\ line[Len(line)] = "\r" THEN SubSeq(line, 1, Len(line) - 1) ELSE line

\* bufio.Scanner with the default ScanLines split: the lines of the data, without
\* their newline and one carriage return before it; a final unterminated line
\* counts when it is not empty
ScanLines(data) ==
    LET parts == Split(data, "\n")
        whole == IF parts[Len(parts)] = <<>> THEN SubSeq(parts, 1, Len(parts) - 1) ELSE parts
    IN  [k \in 1..Len(whole) |-> DropCR(whole[k])]

\* sum of f[x] over the elements of a finite set
RECURSIVE SumOver(_, _)
SumOver(S, f) ==
    IF S = {} THEN 0
    ELSE LET x == CHOOSE y \in S : TRUE IN f[x] + SumOver(S \ {x}, f)

----------------------------------------------------------------------------
(* pkg/gitignore *)

\* filepath.Match(pattern, name) on a Unix build, for patterns made of literal
\* bytes, '*' (any run of non-separator bytes) and '?' (one non-separator byte)
RECURSIVE Match(_, _)
Match(pattern, name) ==
    IF pattern = <<>> THEN name = <<>>
    ELSE IF pattern[1] = "*"
         THEN Match(Tail(pattern), name)
              \/ (name # <<>> /\ name[1] # Separator /\ Match(pattern, Tail(name)))
    ELSE IF pattern[1] = "?"
         THEN name # <<>> /\ name[1] # Separator /\ Match(Tail(pattern), Tail(name))
    ELSE name # <<>> /\ name[1] = pattern[1] /\ Match(Tail(pattern), Tail(name))

\* filepath.Base(path): the last element, trailing separators removed first
Base(path) ==
    IF path = <<>> THEN <<".">>
    ELSE LET p == TrimRight(path, {Separator})
         IN  IF p = <<>> THEN <<Separator>>
             ELSE LET parts == Split(p, Separator) IN parts[Len(parts)]

\* ParseLines appending the line also when nothing is left of it without its slashes
RECURSIVE ParseLinesKeepingEmpty(_)
ParseLinesKeepingEmpty(lines) ==
    IF lines = <<>> THEN <<>>
    ELSE LET line == TrimSpace(Head(lines))
             rest == ParseLinesKeepingEmpty(Tail(lines))
         IN  IF line = <<>> \/ HasPrefix(line, <<"#">>) THEN rest
             ELSE <<Trim(line, {"/"})>> \o rest

\* the parsing loop of NewGitIgnore over the lines of the ignore file
RECURSIVE ParseLines(_)
ParseLines(lines) ==
    IF lines = <<>> THEN <<>>
    ELSE LET line == TrimSpace(Head(lines))
             rest == ParseLines(Tail(lines))
         IN  IF line = <<>> \/ HasPrefix(line, <<"#">>) THEN rest
             ELSE LET bare == Trim(line, {"/"})
                  IN  IF bare # <<>> THEN <<bare>> \o rest ELSE rest

\* NewGitIgnore returning nil for a file it cannot open
NewGitIgnoreLosingError(file) ==
    IF file.state \in {"missing", "unreadable"} THEN [patterns |-> <<>>, err |-> FALSE]
    ELSE [patterns |-> ParseLines(ScanLines(file.bytes)), err |-> FALSE]

\* NewGitIgnore(basePath): the patterns and the error returned, for the state
\* of the .gitignore file at basePath
NewGitIgnore(file) ==
    IF file.state = "missing" THEN [patterns |-> <<>>, err |-> FALSE]
    ELSE IF file.state = "unreadable" THEN [patterns |-> <<>>, err |-> TRUE]
    ELSE [patterns |-> ParseLines(ScanLines(file.bytes)), err |-> FALSE]

\* MatchesPattern without the loop over the path segments
MatchesPatternNoSegments(pattern, relativePath) ==
    Match(pattern, relativePath) \/ Match(pattern, Base(relativePath))

\* the body of the pattern loop of IsIgnored for one pattern
MatchesPattern(pattern, relativePath) ==
    IF Match(pattern, relativePath) THEN TRUE
    ELSE IF Match(pattern, Base(relativePath)) THEN TRUE
    ELSE LET pathParts == Split(relativePath, "/")
         IN  \E i \in 1..Len(pathParts) : Match(pattern, pathParts[i])

RECURSIVE IsIgnoredFrom(_, _)
IsIgnoredFrom(patterns, relativePath) ==
    IF patterns = <<>> THEN FALSE
    ELSE IF MatchesPattern(Head(patterns), relativePath) THEN TRUE
    ELSE IsIgnoredFrom(Tail(patterns), relativePath)

\* (gi *GitIgnore) IsIgnored(relativePath, isDir)
IsIgnored(patterns, relativePath, isDir) ==
    IF relativePath = <<>> \/ relativePath = <<".">> THEN FALSE
    ELSE IsIgnoredFrom(patterns, relativePath)

----------------------------------------------------------------------------
(* The file system the scan runs on *)

nGitignore == <<".", "g", "i", "t", "i", "g", "n", "o", "r", "e">>
nA     == <<"a", ".", "t", "x", "t">>
nB     == <<"b", ".", "t", "x", "t">>
nBuild == <<"b", "u", "i", "l", "d">>
nXlog  == <<"x", ".", "l", "o", "g">>
nSrc   == <<"s", "r", "c">>
nO     == <<"o">>

\* filepath.Join of path elements
JoinPath(parts) == Join(parts, Separator)

pBuildX   == JoinPath(<<nBuild, nXlog>>)
pSrcBuild == JoinPath(<<nSrc, nBuild>>)
pSrcBuildO == JoinPath(<<nSrc, nBuild, nO>>)

DirPaths == {nBuild, nSrc, pSrcBuild}

\* the directory trees a scan is run on (relative paths, closed under parent)
Trees ==
    { top \cup build \cup src :
        top   \in SUBSET {nA, nB},
        build \in {{}, {nBuild, pBuildX}},
        src   \in {{}, {nSrc, pSrcBuild, pSrcBuildO}} }

\* the bytes of the ignore files
IgnoreTexts ==
    { nB \o <<"\n">>,
      nBuild \o <<"\n">>,
      <<"*", ".", "l", "o", "g", "\n">> \o nO \o <<"/", "\n">>,
      <<"#", "c", "\n", "\n", " ", "/">> \o nBuild \o <<"/", "\n">>,
      <<"/">> \o pSrcBuild \o <<"\n">>,
      <<"*", "\n">> }

\* the states of the .gitignore file at the ignore base path
IgnoreFiles ==
    {[state |-> "missing", bytes |-> <<>>], [state |-> "unreadable", bytes |-> <<>>]}
    \cup {[state |-> "present", bytes |-> t] : t \in IgnoreTexts}

\* the bytes of each regular file
FileBytes(rel, ignore) ==
    CASE rel = nA -> <<"h", "i", "\n">>
      [] rel = nB -> <<"x", "\n">>
      [] rel = pBuildX -> <<"l", "\n", "m">>
      [] rel = pSrcBuildO -> <<>>
      [] rel = nGitignore -> ignore.bytes

\* the entries the walk finds below the root: the tree, and the ignore file when
\* the scan root is the ignore base path
Present(tree, ignore, prefix) ==
    tree \cup (IF prefix = <<>> /\ ignore.state # "missing" THEN {nGitignore} ELSE {})

\* the path elements of a relative path; none for the root itself
Parts(rel) == IF rel = <<>> THEN <<>> ELSE Split(rel, Separator)

\* filepath.Dir of a relative path ("" for an entry of the root)
Dir(rel) == LET ps == Parts(rel) IN JoinPath(SubSeq(ps, 1, Len(ps) - 1))

\* os.ReadDir(dir): the entries of the directory, sorted by file name
ReadDir(dir, present) ==
    LET names == {Base(p) : p \in {q \in present : Dir(q) = dir}}
        sorted == SortStrings(names)
    IN  [i \in 1..Len(sorted) |->
            IF dir = <<>> THEN sorted[i] ELSE JoinPath(<<dir, sorted[i]>>)]

RootPath == <<"/", "r">>

\* the absolute path of an entry
AbsPath(rel) == IF rel = <<>> THEN RootPath ELSE JoinPath(<<RootPath, rel>>)

----------------------------------------------------------------------------
(* pkg/scanner: tree rendering *)

\* buildPathMap keeping the first record of a path instead of the last
RECURSIVE buildPathMapFirstWins(_)
buildPathMapFirstWins(files) ==
    IF files = <<>> THEN <<>>
    ELSE LET file == files[1]
             rest == buildPathMapFirstWins(Tail(files))
         IN  IF file.RelativePath # <<>>
             THEN (file.RelativePath :> file.IsDir) @@ rest
             ELSE rest

\* the pathMap loop of generateDirectoryTree: RelativePath -> IsDir, the root
\* record skipped, a later record overwriting an earlier one
RECURSIVE buildPathMap(_)
buildPathMap(files) ==
    IF files = <<>> THEN <<>>
    ELSE LET file == files[Len(files)]
             rest == buildPathMap(SubSeq(files, 1, Len(files) - 1))
         IN  IF file.RelativePath # <<>>
             THEN (file.RelativePath :> file.IsDir) @@ rest
             ELSE rest

\* RelativePath -> TokenCount, built like pathMap
RECURSIVE buildTokenMap(_)
buildTokenMap(files) ==
    IF files = <<>> THEN <<>>
    ELSE LET file == files[Len(files)]
             rest == buildTokenMap(SubSeq(files, 1, Len(files) - 1))
         IN  IF file.RelativePath # <<>>
             THEN (file.RelativePath :> file.TokenCount) @@ rest
             ELSE rest

\* the annotation of a file line: " (N tokens)" when the file has tokens
TokenSuffix(tokenCount) ==
    IF tokenCount > 0
    THEN <<" ", "(">> \o Itoa(tokenCount) \o <<" ", "t", "o", "k", "e", "n", "s", ")">>
    ELSE <<>>

\* Indent with one space per level
IndentOneSpace(i) == Repeat(<<" ">>, i)

\* strings.Repeat("  ", i)
Indent(i) == Repeat(<<" ", " ">>, i)

\* the line written for parts[i] of a path (i counted from 1)
TreeLine(parts, i, pathMap, tokenMap) ==
    LET currentPath == JoinPath(SubSeq(parts, 1, i))
    IN  IF i = Len(parts)
        THEN IF pathMap[currentPath]
             THEN Indent(i - 1) \o parts[i] \o <<"/", "\n">>
             ELSE Indent(i - 1) \o parts[i] \o TokenSuffix(tokenMap[currentPath]) \o <<"\n">>
        ELSE Indent(i - 1) \o parts[i] \o <<"/", "\n">>

\* the inner loop of generateDirectoryTree over the levels of one path, from
\* level i on: the processed prefixes and the text written so far
RECURSIVE TreeLevels(_, _, _, _, _)
TreeLevels(parts, i, pathMap, tokenMap, acc) ==
    IF i > Len(parts) THEN acc
    ELSE LET currentPath == JoinPath(SubSeq(parts, 1, i))
         IN  IF currentPath \in acc.processedDirs
             THEN TreeLevels(parts, i + 1, pathMap, tokenMap, acc)
             ELSE TreeLevels(parts, i + 1, pathMap, tokenMap,
                     [processedDirs |-> acc.processedDirs \cup {currentPath},
                      out |-> acc.out \o TreeLine(parts, i, pathMap, tokenMap)])

\* the outer loop over the sorted paths
RECURSIVE TreePaths(_, _, _, _)
TreePaths(allPaths, pathMap, tokenMap, acc) ==
    IF allPaths = <<>> THEN acc
    ELSE TreePaths(Tail(allPaths), pathMap, tokenMap,
            TreeLevels(Split(Head(allPaths), Separator), 1, pathMap, tokenMap, acc))

\* allPaths without sort.Strings, the paths taken in the order of the records
RECURSIVE allPathsInFileOrder(_)
allPathsInFileOrder(files) ==
    IF files = <<>> THEN <<>>
    ELSE LET rest == allPathsInFileOrder(SubSeq(files, 1, Len(files) - 1))
             path == files[Len(files)].RelativePath
         IN  IF path = <<>> \/ \E k \in 1..Len(rest) : rest[k] = path
             THEN rest ELSE Append(rest, path)

\* the keys of pathMap, sorted: the allPaths slice
allPaths(files) == SortStrings(DOMAIN buildPathMap(files))

\* generateDirectoryTree(files, rootPath)
generateDirectoryTree(files) ==
    LET pathMap == buildPathMap(files)
        tokenMap == buildTokenMap(files)
    IN  TreePaths(allPaths(files), pathMap, tokenMap,
                  [processedDirs |-> {}, out |-> <<>>]).out

----------------------------------------------------------------------------
(* pkg/scanner: the scan *)

\* WriteLines numbering the lines from 0
RECURSIVE WriteLinesZeroBased(_, _, _)
WriteLinesZeroBased(lines, k, displayLineNum) ==
    IF lines = <<>> THEN <<>>
    ELSE (IF displayLineNum THEN Itoa(k - 1) \o <<":", "\t">> ELSE <<>>)
         \o Head(lines) \o <<"\n">>
         \o WriteLinesZeroBased(Tail(lines), k + 1, displayLineNum)

\* the text readFileContent builds from the scanned lines, line k first
RECURSIVE WriteLines(_, _, _)
WriteLines(lines, k, displayLineNum) ==
    IF lines = <<>> THEN <<>>
    ELSE (IF displayLineNum THEN Itoa(k) \o <<":", "\t">> ELSE <<>>)
         \o Head(lines) \o <<"\n">>
         \o WriteLines(Tail(lines), k + 1, displayLineNum)

\* readFileContent(path, displayLineNum), failing when the file cannot be
\* opened or the scanner reports an error
readFileContent(data, displayLineNum, fails) ==
    IF fails THEN [content |-> <<>>, lines |-> 0, err |-> TRUE]
    ELSE LET lines == ScanLines(data)
         IN  [content |-> WriteLines(lines, 1, displayLineNum),
              lines |-> Len(lines), err |-> FALSE]

\* GitRelPath taking the path from the scan root for the path from the ignore base
GitRelPathFromScanRoot(prefix, relPath) == IF relPath = <<>> THEN <<".">> ELSE relPath

\* filepath.Rel(gitignoreBasePath, path) for an entry of the scan
GitRelPath(prefix, relPath) ==
    IF prefix = <<>> THEN (IF relPath = <<>> THEN <<".">> ELSE relPath)
    ELSE IF relPath = <<>> THEN prefix
    ELSE JoinPath(<<prefix, relPath>>)

\* Excluded without the test that spares the scan root
ExcludedTestingRoot(opts, g, prefix, relPath, isDir) ==
    /\ ~opts.NoGitignore
    /\ ~g.isNil
    /\ LET gitignoreRelPath == GitRelPath(prefix, relPath)
       IN  /\ gitignoreRelPath # <<".">>
           /\ gitignoreRelPath # <<>>
           /\ IsIgnored(g.patterns, gitignoreRelPath, isDir)

\* Excluded with the NoGitignore flag read the wrong way round
ExcludedFlagInverted(opts, g, prefix, relPath, isDir) ==
    /\ opts.NoGitignore
    /\ ~g.isNil
    /\ relPath # <<>>
    /\ IsIgnored(g.patterns, GitRelPath(prefix, relPath), isDir)

\* the gitignore test of the walk callback
Excluded(opts, g, prefix, relPath, isDir) ==
    /\ ~opts.NoGitignore
    /\ ~g.isNil
    /\ relPath # <<>>
    /\ LET gitignoreRelPath == GitRelPath(prefix, relPath)
       IN  /\ gitignoreRelPath # <<".">>
           /\ gitignoreRelPath # <<>>
           /\ IsIgnored(g.patterns, gitignoreRelPath, isDir)

\* a warning of ScanResult.Errors: what failed, and on which path
Warning(kind, rel) == [kind |-> kind, path |-> rel]

\* the FileInfo the callback appends for an entry; io is what the file system
\* does to this entry: "ok", "info" (d.Info fails) or "read" (reading fails)
NewFileInfo(relPath, isDir, io, rd) ==
    [Path |-> AbsPath(relPath),
     RelativePath |-> relPath,
     IsDir |-> isDir,
     Size |-> IF ~isDir /\ io # "info" THEN rd.size ELSE 0,
     Content |-> IF ~isDir /\ io # "info" /\ ~rd.err THEN rd.content ELSE <<>>,
     Error |-> IF io = "info" THEN "info"
               ELSE IF ~isDir /\ rd.err THEN "read" ELSE "nil",
     TokenCount |-> 0]

\* CallbackReturn with a read failure returned to WalkDir instead of recorded
CallbackReturnAbort(isDir, excluded, failed) ==
    IF excluded /\ isDir THEN "SkipDir" ELSE IF failed THEN "err" ELSE "nil"

\* CallbackReturn without filepath.SkipDir for an excluded directory
CallbackReturnNoSkip(isDir, excluded, failed) == "nil"

\* the value the callback returns to filepath.WalkDir: filepath.SkipDir for an
\* excluded directory, nil otherwise, also after a failure
CallbackReturn(isDir, excluded, failed) ==
    IF excluded /\ isDir THEN "SkipDir" ELSE "nil"

\* AddLines with = written for +=
AddLinesOverwrite(totalLines, lines) == lines

\* result.TotalLines += lines
AddLines(totalLines, lines) == totalLines + lines

\* WalkFn with the gitignore test made after the entry was recorded
WalkFnRecordingExcluded(res, opts, g, prefix, item, io, data) ==
    IF item.err
    THEN [res |-> [res EXCEPT !.Errors = Append(@, Warning("access", item.rel))],
          ret |-> CallbackReturn(item.isDir, FALSE, TRUE)]
    ELSE LET r == readFileContent(data, opts.DisplayLineNum, io = "read")
             rd == [size |-> Len(data), content |-> r.content, err |-> r.err]
             fileInfo == NewFileInfo(item.rel, item.isDir, io, rd)
             isFile == ~item.isDir /\ io # "info"
             warned ==
                 IF io = "info" THEN Append(res.Errors, Warning("info", item.rel))
                 ELSE IF isFile /\ r.err THEN Append(res.Errors, Warning("read", item.rel))
                 ELSE res.Errors
         IN  [res |-> [res EXCEPT
                        !.Errors = warned,
                        !.TotalLines = IF isFile /\ ~r.err THEN AddLines(@, r.lines) ELSE @,
                        !.TotalFiles = IF isFile THEN @ + 1 ELSE @,
                        !.Files = Append(@, fileInfo)],
              ret |-> CallbackReturn(item.isDir,
                                     Excluded(opts, g, prefix, item.rel, item.isDir),
                                     io # "ok")]

\* the callback handed to filepath.WalkDir, for one invocation: the new
\* ScanResult and the value returned to WalkDir
WalkFn(res, opts, g, prefix, item, io, data) ==
    IF item.err
    THEN [res |-> [res EXCEPT !.Errors = Append(@, Warning("access", item.rel))],
          ret |-> CallbackReturn(item.isDir, FALSE, TRUE)]
    ELSE IF Excluded(opts, g, prefix, item.rel, item.isDir)
    THEN [res |-> res, ret |-> CallbackReturn(item.isDir, TRUE, FALSE)]
    ELSE LET r == readFileContent(data, opts.DisplayLineNum, io = "read")
             rd == [size |-> Len(data), content |-> r.content, err |-> r.err]
             fileInfo == NewFileInfo(item.rel, item.isDir, io, rd)
             isFile == ~item.isDir /\ io # "info"
             warned ==
                 IF io = "info" THEN Append(res.Errors, Warning("info", item.rel))
                 ELSE IF isFile /\ r.err THEN Append(res.Errors, Warning("read", item.rel))
                 ELSE res.Errors
         IN  [res |-> [res EXCEPT
                        !.Errors = warned,
                        !.TotalLines = IF isFile /\ ~r.err THEN AddLines(@, r.lines) ELSE @,
                        !.TotalFiles = IF isFile THEN @ + 1 ELSE @,
                        !.Files = Append(@, fileInfo)],
              ret |-> CallbackReturn(item.isDir, FALSE, io # "ok")]

----------------------------------------------------------------------------
(* pkg/tokenCounter and the annotation pass of pkg/core *)

\* (tc *TokenCounter) CountTokensWithPath(text, filePath): the number of tokens
\* of the encoding; the encoder is an external library, taken here as one
\* token per byte
CountTokensWithPath(text) == Len(text)

\* Skipped without the test of file.Error
SkippedIgnoringError(file) == file.IsDir \/ file.Content = <<>>

\* the records the loop of countTokensInScanResult passes over: directories,
\* files with errors, empty files
Skipped(file) ==
    IF file.IsDir \/ file.Error # "nil" THEN TRUE
    ELSE file.Content = <<>>

\* AddTokens with = written for +=
AddTokensOverwrite(totalTokens, count) == count

\* totalTokens += count
AddTokens(totalTokens, count) == totalTokens + count

\* CountLoop removing from Files the records it passes over
RECURSIVE CountLoopDroppingSkipped(_, _, _)
CountLoopDroppingSkipped(files, i, totalTokens) ==
    IF i > Len(files) THEN [Files |-> files, totalTokens |-> totalTokens]
    ELSE LET file == files[i]
         IN  IF Skipped(file)
             THEN CountLoopDroppingSkipped(
                     SubSeq(files, 1, i - 1) \o SubSeq(files, i + 1, Len(files)),
                     i, totalTokens)
             ELSE LET count == CountTokensWithPath(file.Content)
                  IN  CountLoopDroppingSkipped([files EXCEPT ![i].TokenCount = count],
                                               i + 1, AddTokens(totalTokens, count))

\* the loop of countTokensInScanResult from record i on
RECURSIVE CountLoop(_, _, _)
CountLoop(files, i, totalTokens) ==
    IF i > Len(files) THEN [Files |-> files, totalTokens |-> totalTokens]
    ELSE LET file == files[i]
         IN  IF Skipped(file) THEN CountLoop(files, i + 1, totalTokens)
             ELSE LET count == CountTokensWithPath(file.Content)
                  IN  CountLoop([files EXCEPT ![i].TokenCount = count],
                                i + 1, AddTokens(totalTokens, count))

\* countTokensInScanResult adding to the TotalTokens the result already holds
countTokensInScanResultAccumulating(scanResult, tcOk) ==
    IF ~tcOk THEN [res |-> scanResult, err |-> TRUE]
    ELSE LET done == CountLoop(scanResult.Files, 1, scanResult.TotalTokens)
         IN  [res |-> [scanResult EXCEPT !.Files = done.Files,
                                         !.TotalTokens = done.totalTokens],
              err |-> FALSE]

\* countTokensInScanResult storing its fileCount in TotalFiles
countTokensInScanResultStoringFileCount(scanResult, tcOk) ==
    IF ~tcOk THEN [res |-> scanResult, err |-> TRUE]
    ELSE LET done == CountLoop(scanResult.Files, 1, 0)
         IN  [res |-> [scanResult EXCEPT
                           !.Files = done.Files,
                           !.TotalTokens = done.totalTokens,
                           !.TotalFiles = Cardinality({i \in 1..Len(done.Files) :
                                                         ~Skipped(done.Files[i])})],
              err |-> FALSE]

\* countTokensInScanResult clearing TotalTokens before the counter is created
countTokensInScanResultResetFirst(scanResult, tcOk) ==
    IF ~tcOk THEN [res |-> [scanResult EXCEPT !.TotalTokens = 0], err |-> TRUE]
    ELSE LET done == CountLoop(scanResult.Files, 1, 0)
         IN  [res |-> [scanResult EXCEPT !.Files = done.Files,
                                         !.TotalTokens = done.totalTokens],
              err |-> FALSE]

\* countTokensInScanResult(scanResult, verbose); tcOk tells whether
\* NewTokenCounter succeeds
countTokensInScanResult(scanResult, tcOk) ==
    IF ~tcOk THEN [res |-> scanResult, err |-> TRUE]
    ELSE LET done == CountLoop(scanResult.Files, 1, 0)
         IN  [res |-> [scanResult EXCEPT !.Files = done.Files,
                                         !.TotalTokens = done.totalTokens],
              err |-> FALSE]

\* scanner.RegenerateDirectoryTree(scanResult)
RegenerateDirectoryTree(scanResult) == generateDirectoryTree(scanResult.Files)

----------------------------------------------------------------------------
(* processDirectory: the scan, then the annotation pass *)

MaxFaults == 1

GitPrefixes == {<<>>, nSrc}

OptionSets == [NoGitignore : BOOLEAN, DisplayLineNum : BOOLEAN, CountTokens : BOOLEAN]

NoCall == [fn |-> "none"]

\* the gi variable of ScanDirectoryWithOptions before it is assigned
NilGitIgnore == [isNil |-> TRUE, patterns |-> <<>>]

NewScanResult ==
    [RootPath |-> RootPath, Files |-> <<>>, DirectoryTree |-> <<>>,
     TotalFiles |-> 0, TotalLines |-> 0, TotalTokens |-> 0, Errors |-> <<>>]

Init ==
    /\ fsTree \in Trees
    /\ ignoreFile \in IgnoreFiles
    /\ gitPrefix \in GitPrefixes
    /\ options \in OptionSets
    /\ pc = "start"
    /\ gi = NilGitIgnore
    /\ todo = <<>>
    /\ faults = 0
    /\ result = NewScanResult
    /\ call = NoCall

Item(rel, isDir, err) == [rel |-> rel, isDir |-> isDir, err |-> err]

\* ScanDirectoryWithOptions up to the call of filepath.WalkDir: the result is
\* created and the ignore rules are loaded
ScanStart ==
    /\ pc = "start"
    /\ LET loaded == NewGitIgnore(ignoreFile)
       IN  IF options.NoGitignore
           THEN gi' = NilGitIgnore /\ result' = NewScanResult
           ELSE /\ gi' = [isNil |-> FALSE, patterns |-> loaded.patterns]
                /\ result' = [NewScanResult EXCEPT !.Errors =
                                 IF loaded.err THEN <<Warning("gitignore", nGitignore)>>
                                 ELSE <<>>]
    /\ todo' = <<Item(<<>>, TRUE, FALSE)>>
    /\ pc' = "walk"
    /\ UNCHANGED <<fsTree, ignoreFile, gitPrefix, options, faults, call>>

\* the entry is the unreadable ignore file itself
Unreadable(rel) == rel = nGitignore /\ ignoreFile.state = "unreadable"

\* what the file system may do to the entry of one callback invocation
IoChoices(item) ==
    IF item.err \/ Excluded(options, gi, gitPrefix, item.rel, item.isDir) THEN {"ok"}
    ELSE IF Unreadable(item.rel) THEN {"read"}
    ELSE {"ok"} \cup (IF faults < MaxFaults
                      THEN {"read"} \cup (IF item.rel # <<>> THEN {"info"} ELSE {})
                      ELSE {})

\* NextTodo handing a directory that could not be listed to the callback once
\* more as a fresh entry
NextTodoRetryingDirectory(item, ret, io, present) ==
    IF ret = "err" THEN <<>>
    ELSE IF item.err \/ ~item.isDir \/ ret = "SkipDir" THEN Tail(todo)
    ELSE IF io = "read" THEN <<Item(item.rel, TRUE, FALSE)>> \o Tail(todo)
    ELSE LET dirs == ReadDir(item.rel, present)
         IN  [i \in 1..Len(dirs) |-> Item(dirs[i], dirs[i] \in DirPaths, FALSE)]
             \o Tail(todo)

\* NextTodo ending the walk after a callback that was handed an error
NextTodoStoppingAfterError(item, ret, io, present) ==
    IF ret = "err" \/ item.err THEN <<>>
    ELSE IF ~item.isDir \/ ret = "SkipDir" THEN Tail(todo)
    ELSE IF io = "read" THEN <<Item(item.rel, TRUE, TRUE)>> \o Tail(todo)
    ELSE LET dirs == ReadDir(item.rel, present)
         IN  [i \in 1..Len(dirs) |-> Item(dirs[i], dirs[i] \in DirPaths, FALSE)]
             \o Tail(todo)

\* what filepath.WalkDir does after the callback returned ret for the entry; an
\* error other than SkipDir ends the walk
NextTodo(item, ret, io, present) ==
    IF ret = "err" THEN <<>>
    ELSE IF item.err \/ ~item.isDir \/ ret = "SkipDir" THEN Tail(todo)
    ELSE IF io = "read" THEN <<Item(item.rel, TRUE, TRUE)>> \o Tail(todo)
    ELSE LET dirs == ReadDir(item.rel, present)
         IN  [i \in 1..Len(dirs) |-> Item(dirs[i], dirs[i] \in DirPaths, FALSE)]
             \o Tail(todo)

\* one invocation of the walk callback by filepath.WalkDir; when the callback
\* returns an error, WalkDir returns it and the scan fails
WalkStep ==
    /\ pc = "walk"
    /\ todo # <<>>
    /\ LET item == Head(todo)
           data == IF item.isDir THEN <<>> ELSE FileBytes(item.rel, ignoreFile)
       IN  \E io \in IoChoices(item) :
             LET out == WalkFn(result, options, gi, gitPrefix, item, io, data)
             IN  /\ result' = out.res
                 /\ todo' = NextTodo(item, out.ret, io,
                                     Present(fsTree, ignoreFile, gitPrefix))
                 /\ faults' = IF io # "ok" /\ ~Unreadable(item.rel)
                              THEN faults + 1 ELSE faults
                 /\ pc' = IF out.ret = "err" THEN "failed" ELSE pc
    /\ UNCHANGED <<fsTree, ignoreFile, gitPrefix, options, gi, call>>

\* filepath.WalkDir has returned nil: the tree is rendered and the result returned
ScanReturn ==
    /\ pc = "walk"
    /\ todo = <<>>
    /\ result' = [result EXCEPT !.DirectoryTree = generateDirectoryTree(result.Files)]
    /\ pc' = IF options.CountTokens THEN "tokens" ELSE "output"
    /\ UNCHANGED <<fsTree, ignoreFile, gitPrefix, options, gi, todo, faults, call>>

\* processDirectory with CountTokens set: the annotation pass, then the tree is
\* rendered again
AnnotateTokens ==
    /\ pc = "tokens"
    /\ \E tcOk \in BOOLEAN :
         LET counted == countTokensInScanResult(result, tcOk)
         IN  /\ result' = [counted.res EXCEPT
                              !.DirectoryTree = RegenerateDirectoryTree(counted.res)]
             /\ call' = [fn |-> "countTokensInScanResult", err |-> counted.err,
                         treeBefore |-> result.DirectoryTree]
    /\ pc' = "output"
    /\ UNCHANGED <<fsTree, ignoreFile, gitPrefix, options, gi, todo, faults>>

Next == ScanStart \/ WalkStep \/ ScanReturn \/ AnnotateTokens

Spec == Init /\ [][Next]_vars

----------------------------------------------------------------------------
(* Properties of the scan *)

\* ScanDirectoryWithOptions has just returned its result
ScanReturned == pc \in {"tokens", "output"} /\ call.fn = "none"

FileIdx == 1..Len(result.Files)

\* the number of lines readFileContent counts for the file at rel
LinesOf(rel) == Len(ScanLines(FileBytes(rel, ignoreFile)))

\* the content readFileContent returns for the file at rel
ContentOf(rel) == WriteLines(ScanLines(FileBytes(rel, ignoreFile)), 1, options.DisplayLineNum)

\* the entries the walk can find
AllPresent == Present(fsTree, ignoreFile, gitPrefix)

\* the prefix of k elements of a relative path
PrefixOf(rel, k) == JoinPath(SubSeq(Parts(rel), 1, k))

\* p is d or lies below d
Under(p, d) == p = d \/ HasPrefix(p, d \o <<Separator>>)

\* the warnings of a kind about a path
WarningsAbout(kind, rel) ==
    {k \in 1..Len(result.Errors) : result.Errors[k] = Warning(kind, rel)}

\* the walk gets to the entry: neither it nor a directory above it is excluded,
\* and every directory above it could be listed
WalkReaches(rel) ==
    /\ WarningsAbout("access", <<>>) = {}
    /\ \A k \in 1..Len(Parts(rel)) :
         /\ ~Excluded(options, gi, gitPrefix, PrefixOf(rel, k), k < Len(Parts(rel)) \/ rel \in DirPaths)
         /\ k < Len(Parts(rel)) => WarningsAbout("access", PrefixOf(rel, k)) = {}

\* C1: after a successful scan TotalFiles is the number of records that are
\* not directories and have a nil Error
C1_TotalFilesCountsErrorFree ==
    ScanReturned =>
        result.TotalFiles =
            Cardinality({i \in FileIdx : ~result.Files[i].IsDir /\ result.Files[i].Error = "nil"})

\* C2: a failing read of a regular file never fails the scan; the file is
\* recorded with its Error and without Content, one read warning names it, and
\* every entry the walk reaches is recorded once, readable files with their content
C2_ReadFailureIsolated ==
    /\ pc # "failed"
    /\ ScanReturned =>
         /\ \A i \in FileIdx :
              result.Files[i].Error = "read" =>
                 /\ ~result.Files[i].IsDir
                 /\ result.Files[i].Content = <<>>
                 /\ Cardinality(WarningsAbout("read", result.Files[i].RelativePath)) = 1
         /\ \A p \in AllPresent :
              WalkReaches(p) =>
                 /\ Cardinality({i \in FileIdx : result.Files[i].RelativePath = p}) = 1
                 /\ \A i \in FileIdx :
                      (result.Files[i].RelativePath = p /\ p \notin DirPaths
                         /\ result.Files[i].Error = "nil")
                      => result.Files[i].Content = ContentOf(p)

\* a read failure in the middle of the walk, with files read before and after it
C2_Witness ==
    /\ ScanReturned
    /\ \E i, j, k \in FileIdx :
         /\ j < i /\ i < k
         /\ result.Files[i].Error = "read"
         /\ result.Files[j].Content # <<>>
         /\ result.Files[k].Content # <<>>

\* C3: in every state of the walk and in the returned result, TotalLines is the
\* sum of the counted lines of the records that are files without an Error
C3_TotalLinesIsSum ==
    LET counted == {i \in FileIdx : ~result.Files[i].IsDir /\ result.Files[i].Error = "nil"}
    IN  result.TotalLines =
            SumOver(counted, [i \in counted |-> LinesOf(result.Files[i].RelativePath)])

\* a returned result with a failed file, a directory and several counted files
C3_Witness ==
    /\ ScanReturned
    /\ result.TotalLines >= 3
    /\ \E i \in FileIdx : result.Files[i].Error = "read"
    /\ \E i \in FileIdx : result.Files[i].IsDir /\ result.Files[i].RelativePath # <<>>

\* the directories of the tree that the ignore rules match
PrunedDirs ==
    {d \in AllPresent \cap DirPaths : Excluded(options, gi, gitPrefix, d, TRUE)}

\* the files of the tree outside every matched directory
KeptFiles ==
    {p \in AllPresent \ DirPaths : \A d \in PrunedDirs : ~Under(p, d)}

\* C6: a directory matched by an ignore pattern is pruned with its subtree: no
\* record lies at or below it, and its files are in neither total
C6_IgnoredDirectoryPruned ==
    pc \notin {"start", "walk"} =>
        /\ \A d \in PrunedDirs : \A i \in FileIdx : ~Under(result.Files[i].RelativePath, d)
        /\ result.TotalFiles <= Cardinality(KeptFiles)
        /\ result.TotalLines <= SumOver(KeptFiles, [p \in KeptFiles |-> LinesOf(p)])

\* a finished scan that pruned a directory holding a file no pattern matches by itself
C6_Witness ==
    /\ ScanReturned
    /\ result.TotalFiles >= 1
    /\ \E d \in PrunedDirs : \E p \in fsTree \ DirPaths :
         /\ Under(p, d)
         /\ ~IsIgnored(gi.patterns, GitRelPath(gitPrefix, p), FALSE)

\* the scan of a root holding a.txt, b.txt and a .gitignore with the pattern b.txt
C8_Scenario ==
    /\ ScanReturned
    /\ fsTree = {nA, nB}
    /\ ignoreFile = [state |-> "present", bytes |-> nB \o <<"\n">>]
    /\ gitPrefix = <<>>
    /\ ~options.NoGitignore
    /\ faults = 0

\* C8 as stated: one file, one line, no warning, the tree is the line a.txt
C8_OnlyATxtCounted ==
    C8_Scenario =>
        /\ result.TotalFiles = 1
        /\ result.TotalLines = 1
        /\ result.Errors = <<>>
        /\ result.DirectoryTree = nA \o <<"\n">>

\* C8 amended: the .gitignore file is itself recorded and counted: two files,
\* two lines, no warning, the tree is the lines .gitignore and a.txt
C8_GitignoreCountedToo ==
    C8_Scenario =>
        /\ result.TotalFiles = 2
        /\ result.TotalLines = 2
        /\ result.Errors = <<>>
        /\ result.DirectoryTree = nGitignore \o <<"\n">> \o nA \o <<"\n">>
        /\ [i \in FileIdx |-> result.Files[i].RelativePath] = <<<<>>, nGitignore, nA>>

C8_Witness == C8_Scenario

----------------------------------------------------------------------------
(* countTokensInScanResult on the scan results its tests build *)

MaxMockFiles == 4

\* a FileInfo literal of the tests
MockFile(rel, isDir, content, error) ==
    [Path |-> AbsPath(rel), RelativePath |-> rel, IsDir |-> isDir, Size |-> 0,
     Content |-> content, Error |-> error, TokenCount |-> 0]

\* the records of the tests: two valid files, an empty file, a directory, and
\* a file that carries content and an error
MockFiles ==
    { MockFile(nA, FALSE, <<"h", "i", "\n">>, "nil"),
      MockFile(nB, FALSE, <<"x", "\n">>, "nil"),
      MockFile(nO, FALSE, <<>>, "nil"),
      MockFile(nSrc, TRUE, <<>>, "nil"),
      MockFile(nXlog, FALSE, <<"l", "\n">>, "read") }

\* createMockScanResult(files)
createMockScanResult(files) ==
    [RootPath |-> RootPath, Files |-> files, DirectoryTree |-> nSrc \o <<"/">>,
     TotalFiles |-> Len(files), TotalLines |-> 0, TotalTokens |-> 0, Errors |-> <<>>]

\* the sequences over S of length at most n
SeqsUpTo(S, n) == UNION {[1..k -> S] : k \in 0..n}

\* the variables of the scan, at rest while a function is exercised on its own
ScanAtRest ==
    /\ fsTree = {}
    /\ ignoreFile = [state |-> "missing", bytes |-> <<>>]
    /\ gitPrefix = <<>>
    /\ options = [NoGitignore |-> FALSE, DisplayLineNum |-> FALSE, CountTokens |-> TRUE]
    /\ gi = NilGitIgnore
    /\ todo = <<>>
    /\ faults = 0

InitTokens ==
    /\ ScanAtRest
    /\ pc = "mock"
    /\ result \in {createMockScanResult(files) : files \in SeqsUpTo(MockFiles, MaxMockFiles)}
    /\ call = NoCall

\* err := countTokensInScanResult(scanResult, false), on a fresh result and
\* once more on the result of the first call
CallCountTokens ==
    /\ pc \in {"mock", "counted"}
    /\ \E tcOk \in BOOLEAN :
         LET counted == countTokensInScanResult(result, tcOk)
         IN  /\ result' = counted.res
             /\ call' = [fn |-> "countTokensInScanResult", err |-> counted.err,
                         before |-> result,
                         annotated |-> pc = "counted" /\ ~call.err]
    /\ pc' = IF pc = "mock" THEN "counted" ELSE "recounted"
    /\ UNCHANGED <<fsTree, ignoreFile, gitPrefix, options, gi, todo, faults>>

NextTokens == CallCountTokens

SpecTokens == InitTokens /\ [][NextTokens]_vars

\* countTokensInScanResult has returned nil
CountReturnedNil == call.fn = "countTokensInScanResult" /\ ~call.err

\* C4: after countTokensInScanResult returns nil, TotalTokens is the sum of
\* TokenCount over all records of Files
C4_TotalTokensIsSum ==
    CountReturnedNil =>
        result.TotalTokens = SumOver(FileIdx, [i \in FileIdx |-> result.Files[i].TokenCount])

\* an annotated result with two counted files, and a record that was passed over
C4_Witness ==
    /\ CountReturnedNil
    /\ \E i, j \in FileIdx :
         i # j /\ result.Files[i].TokenCount > 0 /\ result.Files[j].TokenCount > 0
    /\ \E i \in FileIdx : result.Files[i].IsDir

\* the records countTokensInScanResult must pass over
MustSkip(file) == file.IsDir \/ file.Error # "nil" \/ file.Content = <<>>

\* C5: directories, records with an Error and records with empty Content keep
\* TokenCount 0 and add nothing to TotalTokens, which is the token count of the
\* other records alone
C5_SkippedRecordsCountNothing ==
    CountReturnedNil =>
        LET valid == {i \in FileIdx : ~MustSkip(result.Files[i])}
        IN  /\ \A i \in FileIdx \ valid : result.Files[i].TokenCount = 0
            /\ result.TotalTokens =
                  SumOver(valid, [i \in valid |-> CountTokensWithPath(result.Files[i].Content)])

\* the mixed scenario: a valid file next to a directory, an empty file and a
\* file that has content and an error
C5_Witness ==
    /\ CountReturnedNil
    /\ \E i \in FileIdx : result.Files[i].TokenCount > 0
    /\ \E i \in FileIdx : result.Files[i].IsDir
    /\ \E i \in FileIdx : ~result.Files[i].IsDir /\ result.Files[i].Error = "nil"
                           /\ result.Files[i].Content = <<>>
    /\ \E i \in FileIdx : result.Files[i].Error # "nil" /\ result.Files[i].Content # <<>>

----------------------------------------------------------------------------
(* NewGitIgnore and IsIgnored on their own *)

nLogGlob == <<"*", ".", "l", "o", "g">>
nTestLog == <<"t", "e", "s", "t", ".", "l", "o", "g">>
nTestTxt == <<"t", "e", "s", "t", ".", "t", "x", "t">>
nLogger  == <<"x", ".", "l", "o", "g", "g", "e", "r">>
nDir     == <<"d", "i", "r">>

\* the ignore files of the unit tests and of the scans
UnitIgnoreFiles == IgnoreFiles \cup {[state |-> "present", bytes |-> nLogGlob]}

\* the relative paths IsIgnored is asked about
QueryPaths ==
    { <<>>, <<".">>, nXlog, nTestLog, nTestTxt, nLogger, JoinPath(<<nDir, nXlog>>),
      nA, nB, nO, nBuild, nBuild \o <<"/">>, pBuildX, pSrcBuild, pSrcBuildO }

InitIgnore ==
    /\ fsTree = {}
    /\ ignoreFile \in UnitIgnoreFiles
    /\ gitPrefix = <<>>
    /\ options = [NoGitignore |-> FALSE, DisplayLineNum |-> FALSE, CountTokens |-> FALSE]
    /\ pc = "load"
    /\ gi = NilGitIgnore
    /\ todo = <<>>
    /\ faults = 0
    /\ result = NewScanResult
    /\ call = NoCall

\* gi, err := NewGitIgnore(basePath)
CallNewGitIgnore ==
    /\ pc = "load"
    /\ LET loaded == NewGitIgnore(ignoreFile)
       IN  /\ gi' = [isNil |-> FALSE, patterns |-> loaded.patterns]
           /\ call' = [fn |-> "NewGitIgnore", err |-> loaded.err]
    /\ pc' = "loaded"
    /\ UNCHANGED <<fsTree, ignoreFile, gitPrefix, options, todo, faults, result>>

\* gi.IsIgnored(relativePath, isDir)
CallIsIgnored ==
    /\ pc \in {"loaded", "asked"}
    /\ \E relativePath \in QueryPaths, isDir \in BOOLEAN :
         call' = [fn |-> "IsIgnored", relativePath |-> relativePath, isDir |-> isDir,
                  ret |-> IsIgnored(gi.patterns, relativePath, isDir)]
    /\ pc' = "asked"
    /\ UNCHANGED <<fsTree, ignoreFile, gitPrefix, options, gi, todo, faults, result>>

NextIgnore == CallNewGitIgnore \/ CallIsIgnored

SpecIgnore == InitIgnore /\ [][NextIgnore]_vars

\* some stored pattern matches the whole path, its final segment, or one of
\* its segments
SomePatternMatches(patterns, relativePath) ==
    LET segments == Split(relativePath, "/")
    IN  \E k \in 1..Len(patterns) :
           \/ Match(patterns[k], relativePath)
           \/ Match(patterns[k], segments[Len(segments)])
           \/ \E i \in 1..Len(segments) : Match(patterns[k], segments[i])

\* C7 as stated: IsIgnored is true exactly when some stored pattern matches the
\* whole relative path, its final segment or any single segment
C7_IgnoredIffPatternMatches ==
    call.fn = "IsIgnored" =>
        (call.ret <=> SomePatternMatches(gi.patterns, call.relativePath))

\* C7 amended: for the empty path and "." IsIgnored is false whatever the
\* patterns; for every other path it is true exactly when some stored pattern
\* matches the whole path, its final segment or any single segment; with the
\* single pattern *.log that is x.log, test.log and dir/x.log but not x.logger
\* or test.txt, and a bare directory name excludes that name at any depth
C7_IgnoredIffPatternMatchesOffRoot ==
    call.fn = "IsIgnored" =>
        /\ IF call.relativePath \in {<<>>, <<".">>}
           THEN ~call.ret
           ELSE call.ret <=> SomePatternMatches(gi.patterns, call.relativePath)
        /\ gi.patterns = <<nLogGlob>> =>
             /\ call.relativePath \in {nXlog, nTestLog, JoinPath(<<nDir, nXlog>>)} => call.ret
             /\ call.relativePath \in {nLogger, nTestTxt} => ~call.ret
        /\ gi.patterns = <<nBuild>> =>
             (call.relativePath \in {nBuild, pBuildX, pSrcBuild, pSrcBuildO} => call.ret)

\* a file two levels below a directory whose bare name is the only pattern
C7_Witness ==
    /\ call.fn = "IsIgnored"
    /\ gi.patterns = <<nBuild>>
    /\ call.relativePath = pSrcBuildO
    /\ call.ret

----------------------------------------------------------------------------
(* generateDirectoryTree on its own *)

MaxRecords == 3

nZ  == <<"z", ".", "t", "x", "t">>
nM  == <<"m">>
nMX == <<"m", "-", "x">>
pMB == JoinPath(<<nM, <<"b">>>>)
pKD == JoinPath(<<<<"k">>, <<"d">>>>)

\* a FileInfo literal of the tree tests
TreeFile(rel, isDir, tokenCount) ==
    [Path |-> AbsPath(rel), RelativePath |-> rel, IsDir |-> isDir, Size |-> 0,
     Content |-> <<>>, Error |-> "nil", TokenCount |-> tokenCount]

\* the records the tree is rendered from: the root, files with and without
\* tokens, directories, entries below a directory with and without a record
TreeRecords ==
    { TreeFile(<<>>, TRUE, 0),
      TreeFile(nA, FALSE, 5),
      TreeFile(nZ, FALSE, 0),
      TreeFile(nM, TRUE, 0),
      TreeFile(pMB, FALSE, 12),
      TreeFile(nMX, FALSE, 0),
      TreeFile(pKD, TRUE, 0) }

InitTree ==
    /\ ScanAtRest
    /\ pc = "files"
    /\ result \in {[NewScanResult EXCEPT !.Files = files] :
                     files \in SeqsUpTo(TreeRecords, MaxRecords)}
    /\ call = NoCall

\* result := generateDirectoryTree(files, rootPath)
CallGenerateDirectoryTree ==
    /\ pc = "files"
    /\ result' = [result EXCEPT !.DirectoryTree = generateDirectoryTree(result.Files)]
    /\ call' = [fn |-> "generateDirectoryTree"]
    /\ pc' = "rendered"
    /\ UNCHANGED <<fsTree, ignoreFile, gitPrefix, options, gi, todo, faults>>

NextTree == CallGenerateDirectoryTree

SpecTree == InitTree /\ [][NextTree]_vars

\* the tree has been rendered from result.Files
Rendered == call.fn = "generateDirectoryTree"

\* the lines of a text in which every line ends with a newline
TextLines(text) ==
    LET parts == Split(text, "\n") IN SubSeq(parts, 1, Len(parts) - 1)

NewlineTerminated(text) == text = <<>> \/ text[Len(text)] = "\n"

\* the non-empty relative paths of the records
RecordPaths == {result.Files[i].RelativePath : i \in FileIdx} \ {<<>>}

\* the distinct non-empty path prefixes of the records' relative paths
PathPrefixes == UNION {{PrefixOf(p, k) : k \in 1..Len(Parts(p))} : p \in RecordPaths}

\* the last record with the relative path p
RecordAt(p) ==
    result.Files[CHOOSE i \in FileIdx :
                    /\ result.Files[i].RelativePath = p
                    /\ \A j \in FileIdx : result.Files[j].RelativePath = p => j <= i]

\* the line a path prefix must be shown as
ExpectedLine(q) ==
    LET parts == Parts(q)
        head == Repeat(<<" ", " ">>, Len(parts) - 1) \o parts[Len(parts)]
    IN  IF q \notin RecordPaths \/ RecordAt(q).IsDir THEN head \o <<"/">>
        ELSE IF RecordAt(q).TokenCount > 0
             THEN head \o <<" ", "(">> \o Itoa(RecordAt(q).TokenCount)
                       \o <<" ", "t", "o", "k", "e", "n", "s", ")">>
        ELSE head

Permuted(files, f) == [i \in 1..Len(files) |-> files[f[i]]]

IndexPermutations(n) == {f \in [1..n -> 1..n] : \A i, j \in 1..n : f[i] = f[j] => i = j}

DistinctPaths ==
    \A i, j \in FileIdx : result.Files[i].RelativePath = result.Files[j].RelativePath => i = j

\* a occurs in b as a subsequence, from positions i of a and j of b on
RECURSIVE SubsequenceFrom(_, _, _, _)
SubsequenceFrom(a, i, b, j) ==
    IF i > Len(a) THEN TRUE
    ELSE IF j > Len(b) THEN FALSE
    ELSE IF a[i] = b[j] THEN SubsequenceFrom(a, i + 1, b, j + 1)
    ELSE SubsequenceFrom(a, i, b, j + 1)

\* C10: for records with distinct relative paths the rendered tree is the same
\* for every order of the records, and the lines of the records come in the
\* lexicographic order of their relative paths
C10_OrderOfRecordsIrrelevant ==
    (Rendered /\ DistinctPaths) =>
        /\ \A f \in IndexPermutations(Len(result.Files)) :
              generateDirectoryTree(Permuted(result.Files, f)) = result.DirectoryTree
        /\ LET sorted == SortStrings(RecordPaths)
           IN  SubsequenceFrom([k \in 1..Len(sorted) |-> ExpectedLine(sorted[k])], 1,
                               TextLines(result.DirectoryTree), 1)

\* the records z.txt, a.txt, m given against the lexicographic order
C10_Witness ==
    /\ Rendered
    /\ result.Files = <<TreeFile(nZ, FALSE, 0), TreeFile(nA, FALSE, 5), TreeFile(nM, TRUE, 0)>>
    /\ result.DirectoryTree = nA \o <<" ", "(", "5", " ", "t", "o", "k", "e", "n", "s", ")", "\n">>
                                 \o nM \o <<"/", "\n">> \o nZ \o <<"\n">>

----------------------------------------------------------------------------
(* The tree before and after the annotation pass *)

\* processDirectory has run the annotation pass and rendered the tree again
Annotated == pc = "output" /\ call.fn = "countTokensInScanResult"

\* the line after the pass is the line before it, with at most a token
\* annotation added to a file line
SameLineButSuffix(before, after) ==
    \/ after = before
    \/ /\ before[Len(before)] # "/"
       /\ \E i \in FileIdx :
            /\ result.Files[i].TokenCount > 0
            /\ after = before \o TokenSuffix(result.Files[i].TokenCount)

----------------------------------------------------------------------------
(* countTokensInScanResult when the token counter cannot be created *)

\* countTokensInScanResult has returned an error
CountReturnedError ==
    /\ pc \in {"counted", "recounted"}
    /\ call.fn = "countTokensInScanResult"
    /\ call.err

\* C12: when the token counter cannot be initialised the call returns an
\* error and has modified no record's TokenCount and not TotalTokens: the
\* result is as it was before the call
C12_FailedInitTouchesNothing ==
    CountReturnedError =>
        /\ result.TotalTokens = call.before.TotalTokens
        /\ Len(result.Files) = Len(call.before.Files)
        /\ \A i \in FileIdx : result.Files[i].TokenCount = call.before.Files[i].TokenCount
        /\ result = call.before

\* a failing call on a result that an earlier call had annotated
C12_Witness ==
    /\ CountReturnedError
    /\ pc = "recounted"
    /\ result.TotalTokens > 0
    /\ \E i \in FileIdx : result.Files[i].TokenCount > 0

----------------------------------------------------------------------------
(* pkg/core: Run *)

MaxPaths == 6

\* the most paths Run accepts
MaxAllowedPaths == 5

\* what happens to a path given to Run: it is processed, filepath.Abs fails,
\* os.Stat reports that it does not exist, os.Stat fails otherwise, or
\* processPath returns an error
PathFates == {"ok", "noabs", "notexist", "nostat", "procerr"}

\* the length test of Run with >= written for >
TooManyPathsAtLimit(paths) == Len(paths) >= MaxAllowedPaths

\* len(paths) > 5
TooManyPaths(paths) == Len(paths) > MaxAllowedPaths

\* what one iteration of the loop of Run writes for paths[i]: a report on
\* stderr, or the output of processPath
PathEvent(paths, i) ==
    CASE paths[i] = "noabs"    -> [stream |-> "stderr", msg |-> "error getting absolute path", index |-> i]
      [] paths[i] = "notexist" -> [stream |-> "stderr", msg |-> "path does not exist", index |-> i]
      [] paths[i] = "nostat"   -> [stream |-> "stderr", msg |-> "error checking path", index |-> i]
      [] paths[i] = "procerr"  -> [stream |-> "stderr", msg |-> "error processing path", index |-> i]
      [] paths[i] = "ok"       -> [stream |-> "output", msg |-> "context", index |-> i]

\* RunLoop returning the error of the first path that fails
RECURSIVE RunLoopStopAtFailure(_, _, _)
RunLoopStopAtFailure(paths, i, events) ==
    IF i > Len(paths) THEN [events |-> events, err |-> FALSE]
    ELSE IF paths[i] # "ok" THEN [events |-> Append(events, PathEvent(paths, i)), err |-> TRUE]
    ELSE RunLoopStopAtFailure(paths, i + 1, Append(events, PathEvent(paths, i)))

\* the loop of Run from paths[i] on: every branch ends in continue
RECURSIVE RunLoop(_, _, _)
RunLoop(paths, i, events) ==
    IF i > Len(paths) THEN [events |-> events, err |-> FALSE]
    ELSE RunLoop(paths, i + 1, Append(events, PathEvent(paths, i)))

\* Run(paths, flagCfg)
Run(paths) ==
    IF TooManyPaths(paths) THEN [events |-> <<>>, err |-> TRUE]
    ELSE RunLoop(paths, 1, <<>>)

InitRun ==
    /\ ScanAtRest
    /\ pc = "main"
    /\ result = NewScanResult
    /\ call \in {[fn |-> "none", paths |-> paths] : paths \in SeqsUpTo(PathFates, MaxPaths)}

\* err := core.Run(paths, flagCfg)
CallRun ==
    /\ pc = "main"
    /\ LET ran == Run(call.paths)
       IN  call' = [fn |-> "Run", paths |-> call.paths, events |-> ran.events, err |-> ran.err]
    /\ pc' = "returned"
    /\ UNCHANGED <<fsTree, ignoreFile, gitPrefix, options, gi, todo, faults, result>>

NextRun == CallRun

SpecRun == InitRun /\ [][NextRun]_vars

RunReturned == pc = "returned" /\ call.fn = "Run"

\* C13: called with more than 5 paths Run returns an error and has processed
\* none of them, nothing scanned and nothing written; called with 5 or fewer,
\* every path is attempted
C13_AtMostFivePaths ==
    RunReturned =>
        IF Len(call.paths) > 5
        THEN call.err /\ call.events = <<>>
        ELSE \A i \in 1..Len(call.paths) :
                \E k \in 1..Len(call.events) : call.events[k].index = i

\* Run was given exactly five paths and wrote the output of the fifth
C13_Witness ==
    /\ RunReturned
    /\ Len(call.paths) = 5
    /\ \E k \in 1..Len(call.events) :
         call.events[k].index = 5 /\ call.events[k].stream = "output"

----------------------------------------------------------------------------
(* pkg/scanner: GetEntryPoint *)

\* filepath.IsAbs
IsAbs(path) == path # <<>> /\ path[1] = Separator

\* the elements of a rooted path with "", "." and ".." resolved, from element k on
RECURSIVE CleanFrom(_, _, _)
CleanFrom(elems, k, kept) ==
    IF k > Len(elems) THEN kept
    ELSE IF elems[k] = <<>> \/ elems[k] = <<".">> THEN CleanFrom(elems, k + 1, kept)
    ELSE IF elems[k] = <<".", ".">>
         THEN CleanFrom(elems, k + 1, SubSeq(kept, 1, Len(kept) - 1))
    ELSE CleanFrom(elems, k + 1, Append(kept, elems[k]))

\* filepath.Clean of a rooted path
Clean(path) == <<Separator>> \o Join(CleanFrom(Split(path, Separator), 1, <<>>), Separator)

\* Abs returning a relative path as it was given
AbsUnresolved(path, cwd) == path

\* filepath.Abs(path) in the working directory cwd
Abs(path, cwd) ==
    IF IsAbs(path) THEN Clean(path) ELSE Clean(cwd \o <<Separator>> \o path)

\* the absolute paths of the entries that exist
ExistingPaths(tree) == {<<Separator>>, RootPath} \cup {AbsPath(rel) : rel \in tree}

\* GetEntryPoint(path): io tells whether the working directory can be
\* determined and whether os.Stat can examine the path
GetEntryPoint(path, cwd, tree, io) ==
    IF io = "nowd" /\ ~IsAbs(path) THEN [absPath |-> <<>>, err |-> TRUE]
    ELSE LET absPath == Abs(path, cwd)
         IN  IF io = "nostat" \/ absPath \notin ExistingPaths(tree)
             THEN [absPath |-> <<>>, err |-> TRUE]
             ELSE [absPath |-> absPath, err |-> FALSE]

nGone == <<"g", "o", "n", "e">>

\* the paths GetEntryPoint is called with in the working directory RootPath,
\* each with the absolute path it names
EntryPaths ==
    { [text |-> <<>>, names |-> RootPath],
      [text |-> <<".">>, names |-> RootPath],
      [text |-> <<".", ".">>, names |-> <<Separator>>],
      [text |-> nA, names |-> AbsPath(nA)],
      [text |-> AbsPath(nA), names |-> AbsPath(nA)],
      [text |-> <<".", Separator>> \o nSrc \o <<Separator>>, names |-> AbsPath(nSrc)],
      [text |-> JoinPath(<<nSrc, <<".", ".">>, nA>>), names |-> AbsPath(nA)],
      [text |-> pSrcBuildO, names |-> AbsPath(pSrcBuildO)],
      [text |-> nGone, names |-> AbsPath(nGone)],
      [text |-> <<Separator>> \o JoinPath(<<<<"t", "h", "i", "s">>, nGone>>),
       names |-> <<Separator>> \o JoinPath(<<<<"t", "h", "i", "s">>, nGone>>)] }

InitEntry ==
    /\ fsTree \in Trees
    /\ ignoreFile = [state |-> "missing", bytes |-> <<>>]
    /\ gitPrefix = <<>>
    /\ options = [NoGitignore |-> FALSE, DisplayLineNum |-> FALSE, CountTokens |-> FALSE]
    /\ gi = NilGitIgnore
    /\ todo = <<>>
    /\ faults = 0
    /\ result = NewScanResult
    /\ pc = "entry"
    /\ call \in {[fn |-> "none", path |-> p] : p \in EntryPaths}

\* absPath, err := GetEntryPoint(path)
CallGetEntryPoint ==
    /\ pc = "entry"
    /\ \E io \in {"ok", "nowd", "nostat"} :
         LET got == GetEntryPoint(call.path.text, RootPath, fsTree, io)
         IN  call' = [fn |-> "GetEntryPoint", path |-> call.path, io |-> io,
                      absPath |-> got.absPath, err |-> got.err]
    /\ pc' = "resolved"
    /\ UNCHANGED <<fsTree, ignoreFile, gitPrefix, options, gi, todo, faults, result>>

NextEntry == CallGetEntryPoint

SpecEntry == InitEntry /\ [][NextEntry]_vars

EntryReturned == pc = "resolved" /\ call.fn = "GetEntryPoint"

\* the path given to GetEntryPoint exists
EntryExists == call.path.names \in ExistingPaths(fsTree)

\* C15 as stated: for every path that exists GetEntryPoint returns its
\* absolute path (the working directory for the empty path) and no error, and
\* for every path that does not exist the empty string and an error
C15_EntryPointIffExists ==
    EntryReturned =>
        IF EntryExists
        THEN ~call.err /\ IsAbs(call.absPath) /\ call.absPath = call.path.names
        ELSE call.err /\ call.absPath = <<>>

\* C15 amended: the same for every path that exists and that the file system
\* lets GetEntryPoint resolve and examine; a path that does not exist, a
\* relative path whose working directory cannot be determined and a path
\* os.Stat fails on all give the empty string and an error
C15_EntryPointIffExistsAndExaminable ==
    EntryReturned =>
        IF EntryExists /\ call.io # "nostat" /\ (call.io = "nowd" => IsAbs(call.path.text))
        THEN ~call.err /\ IsAbs(call.absPath) /\ call.absPath = call.path.names
        ELSE call.err /\ call.absPath = <<>>

\* a relative path through .. that exists is resolved against the working directory
C15_Witness ==
    /\ EntryReturned
    /\ call.path.text = JoinPath(<<nSrc, <<".", ".">>, nA>>)
    /\ ~call.err
    /\ call.absPath = AbsPath(nA)

----------------------------------------------------------------------------
(* The NoGitignore option *)

\* ScanDirectory(rootPath): the options of a scan nobody configured
DefaultScanOptions == [NoGitignore |-> FALSE, DisplayLineNum |-> FALSE]

\* the patterns written in the ignore file
WrittenPatterns == NewGitIgnore(ignoreFile).patterns

\* the entry has a record in Files
Recorded(rel) == \E i \in FileIdx : result.Files[i].RelativePath = rel

\* every directory above the entry could be listed
Listable(rel) ==
    /\ WarningsAbout("access", <<>>) = {}
    /\ \A k \in 1..(Len(Parts(rel)) - 1) : WarningsAbout("access", PrefixOf(rel, k)) = {}

\* C16: filtering is on unless switched off: with NoGitignore false no entry
\* below the root that matches a pattern of the ignore file has a record; with
\* NoGitignore true no ignore file is loaded and every entry the walk can list
\* has a record, whatever the ignore file contains
C16_GitignoreOnByDefaultOverridable ==
    /\ ~DefaultScanOptions.NoGitignore
    /\ pc \notin {"start", "walk"} =>
         IF options.NoGitignore
         THEN /\ gi.isNil
              /\ WarningsAbout("gitignore", nGitignore) = {}
              /\ \A p \in AllPresent : Listable(p) => Recorded(p)
         ELSE \A p \in AllPresent :
                 IsIgnored(WrittenPatterns, GitRelPath(gitPrefix, p), p \in DirPaths)
                    => ~Recorded(p)

\* a scan with NoGitignore set that recorded everything although the ignore
\* file excludes everything
C16_Witness ==
    /\ ScanReturned
    /\ options.NoGitignore
    /\ ignoreFile = [state |-> "present", bytes |-> <<"*", "\n">>]
    /\ {nA, nB, pBuildX, pSrcBuildO} \subseteq fsTree
    /\ \A p \in AllPresent : Recorded(p)

----------------------------------------------------------------------------
(* A scan without a usable ignore file *)

\* filtering is on and the ignore file is missing or cannot be opened
NoUsableIgnoreFile == ~options.NoGitignore /\ ignoreFile.state \in {"missing", "unreadable"}

\* the scan has not failed, and once it has returned every entry the walk
\* could list has a record
CompletesUnfiltered ==
    /\ pc # "failed"
    /\ pc \notin {"start", "walk"} => \A p \in AllPresent : Listable(p) => Recorded(p)

----------------------------------------------------------------------------
(* The scan of a subdirectory against the scan of the repository root *)

\* filepath.WalkDir calling the callback for the items in turn when the file
\* system fails nowhere, the root being the ignore base path: the result after
\* the walk
RECURSIVE WalkWithoutFaults(_, _, _, _, _, _)
WalkWithoutFaults(items, res, opts, g, present, dirs) ==
    IF items = <<>> THEN res
    ELSE LET item == Head(items)
             out == WalkFn(res, opts, g, <<>>, item, "ok", <<>>)
             listing == ReadDir(item.rel, present)
             below == IF ~item.isDir \/ out.ret = "SkipDir" THEN <<>>
                      ELSE [i \in 1..Len(listing) |-> Item(listing[i], listing[i] \in dirs, FALSE)]
         IN  WalkWithoutFaults(below \o Tail(items), out.res, opts, g, present, dirs)

\* the path from the repository root of an entry of the scanned subdirectory
InRepository(rel) == JoinPath(<<gitPrefix, rel>>)

\* the entries of the repository whose subdirectory gitPrefix holds the tree
RepositoryTree ==
    {gitPrefix} \cup {InRepository(p) : p \in fsTree}
    \cup (IF ignoreFile.state # "missing" THEN {nGitignore} ELSE {})

RepositoryDirs == {gitPrefix} \cup {InRepository(d) : d \in DirPaths}

\* the relative paths recorded by a scan of the repository root with the same
\* options and rules
RecordedFromRepositoryRoot ==
    LET scanned == WalkWithoutFaults(<<Item(<<>>, TRUE, FALSE)>>, NewScanResult, options, gi,
                                     RepositoryTree, RepositoryDirs)
    IN  {scanned.Files[i].RelativePath : i \in 1..Len(scanned.Files)}

----------------------------------------------------------------------------
(* pkg/scanner: readFileContent on its own *)

MaxBytes == 4

\* eleven lines, the last one not terminated
ElevenLines == <<"a", "\n", "\n", "a", "\r", "\n", "\n", "\n", "\n", "\n", "\n", "\n", "\n", "a">>

\* the files readFileContent is called on: every short file of letters,
\* newlines and carriage returns, and one of eleven lines
FileData == SeqsUpTo({"a", "\n", "\r"}, MaxBytes) \cup {ElevenLines}

InitRead ==
    /\ ScanAtRest
    /\ pc = "file"
    /\ result = NewScanResult
    /\ call \in {[fn |-> "none", data |-> d] : d \in FileData}

\* content, lines, err := readFileContent(path, displayLineNum)
CallReadFileContent ==
    /\ pc = "file"
    /\ \E displayLineNum, fails \in BOOLEAN :
         LET r == readFileContent(call.data, displayLineNum, fails)
         IN  call' = [fn |-> "readFileContent", data |-> call.data,
                      displayLineNum |-> displayLineNum,
                      content |-> r.content, lines |-> r.lines, err |-> r.err]
    /\ pc' = "read"
    /\ UNCHANGED <<fsTree, ignoreFile, gitPrefix, options, gi, todo, faults, result>>

NextRead == CallReadFileContent

SpecRead == InitRead /\ [][NextRead]_vars

\* readFileContent has returned without an error
ReadReturned == pc = "read" /\ call.fn = "readFileContent" /\ ~call.err

\* the number of lines of a file: its newlines, and its unterminated end
NumLines(data) ==
    Cardinality({k \in 1..Len(data) : data[k] = "\n"})
       + (IF data # <<>> /\ data[Len(data)] # "\n" THEN 1 ELSE 0)

\* the lines of a file, each without its line terminator
FileLines(data) ==
    LET ended == IF data = <<>> \/ data[Len(data)] = "\n" THEN data ELSE data \o <<"\n">>
        texts == TextLines(ended)
    IN  [k \in 1..Len(texts) |->
            IF texts[k] # <<>> /\ texts[k][Len(texts[k])] = "\r"
            THEN SubSeq(texts[k], 1, Len(texts[k]) - 1) ELSE texts[k]]

\* the decimal numeral of a line number below 100
Numeral(k) ==
    LET digits == <<"0", "1", "2", "3", "4", "5", "6", "7", "8", "9">>
    IN  IF k < 10 THEN <<digits[k + 1]>> ELSE <<digits[(k \div 10) + 1], digits[(k % 10) + 1]>>

\* the content is the lines of the file, each behind the prefix of its index
\* when line numbers are requested and followed by a newline, and the count
\* is the number of lines whether or not line numbers are requested
ContentIsLines(prefixEnd) ==
    LET written == TextLines(call.content)
        lines == FileLines(call.data)
    IN  /\ NewlineTerminated(call.content)
        /\ call.lines = NumLines(call.data)
        /\ Len(written) = call.lines
        /\ Len(lines) = call.lines
        /\ \A k \in 1..Len(lines) :
              written[k] = (IF call.displayLineNum THEN Numeral(k) \o prefixEnd ELSE <<>>)
                              \o lines[k]

\* C19 as stated: with line numbers each line is prefixed with its 1-based
\* index followed by a tab
C19_IndexThenTab == ReadReturned => ContentIsLines(<<"\t">>)

\* C19 amended: with line numbers each line is prefixed with its 1-based
\* index, a colon and a tab
C19_IndexColonTab == ReadReturned => ContentIsLines(<<":", "\t">>)

\* the file of eleven lines read with line numbers: the tenth line has a
\* two-digit index, the last line gets its newline
C19_Witness ==
    /\ ReadReturned
    /\ call.data = ElevenLines
    /\ call.displayLineNum
    /\ call.lines = 11
    /\ TextLines(call.content)[10] = <<"1", "0", ":", "\t">>
    /\ TextLines(call.content)[11] = <<"1", "1", ":", "\t", "a">>

----------------------------------------------------------------------------
(* pkg/gitignore: the patterns NewGitIgnore stores *)

MaxIgnoreBytes == 4

nNodeModules == <<"n", "o", "d", "e", "_", "m", "o", "d", "u", "l", "e", "s">>

\* the ignore file of TestNewGitIgnore_WithGitignoreFile
TwoPatternFile == nLogGlob \o <<"\n">> \o nNodeModules \o <<"/">>

\* the ignore files NewGitIgnore is called on: every short file of letters,
\* slashes, hashes, blanks and newlines, and the file of the test
ParseFiles ==
    {[state |-> "present", bytes |-> b] :
        b \in SeqsUpTo({"a", "/", "#", " ", "\n"}, MaxIgnoreBytes) \cup {TwoPatternFile}}

InitParse ==
    /\ fsTree = {}
    /\ ignoreFile \in ParseFiles
    /\ gitPrefix = <<>>
    /\ options = [NoGitignore |-> FALSE, DisplayLineNum |-> FALSE, CountTokens |-> FALSE]
    /\ pc = "load"
    /\ gi = NilGitIgnore
    /\ todo = <<>>
    /\ faults = 0
    /\ result = NewScanResult
    /\ call = NoCall

NextParse == CallNewGitIgnore

SpecParse == InitParse /\ [][NextParse]_vars

\* NewGitIgnore has returned the rules of a file it could read
Loaded == pc = "loaded" /\ call.fn = "NewGitIgnore" /\ ~call.err /\ ignoreFile.state = "present"

\* what is left of a line without the characters of cut at its two ends
Core(line, cut) ==
    LET inner == {k \in 1..Len(line) : line[k] \notin cut}
    IN  IF inner = {} THEN <<>>
        ELSE SubSeq(line, CHOOSE k \in inner : \A m \in inner : k <= m,
                          CHOOSE k \in inner : \A m \in inner : m <= k)

Blanks == {" ", "\t", "\r", "\n", "\f"}

\* the line is neither blank nor a comment
IsRuleLine(line) == Core(line, Blanks) # <<>> /\ line[1] # "#"

\* the line without surrounding blanks is neither empty nor a comment
IsRuleLineStripped(line) == Core(line, Blanks) # <<>> /\ Core(line, Blanks)[1] # "#"

StoresSomething(bare) == bare # <<>>

\* C20 as stated: the patterns are, in file order, the lines that are neither
\* blank nor start with '#', each without its leading and trailing '/', those
\* that become empty left out
C20_PatternsAreTrimmedLines ==
    Loaded =>
        LET rules == SelectSeq(FileLines(ignoreFile.bytes), IsRuleLine)
            bare == [k \in 1..Len(rules) |-> Core(rules[k], {"/"})]
        IN  gi.patterns = SelectSeq(bare, StoresSomething)

\* C20 amended: the same of the lines stripped of surrounding white space
\* first: a line is a comment when its first non-blank character is '#', and
\* the pattern stored is the stripped line without its leading and trailing '/'
C20_PatternsAreStrippedTrimmedLines ==
    Loaded =>
        LET rules == SelectSeq(FileLines(ignoreFile.bytes), IsRuleLineStripped)
            bare == [k \in 1..Len(rules) |-> Core(Core(rules[k], Blanks), {"/"})]
        IN  gi.patterns = SelectSeq(bare, StoresSomething)

\* the file '*.log' + newline + 'node_modules/' gives the patterns *.log and node_modules
C20_Witness ==
    /\ Loaded
    /\ ignoreFile.bytes = TwoPatternFile
    /\ gi.patterns = <<nLogGlob, nNodeModules>>

----------------------------------------------------------------------------
(* Single steps of the walk *)

\* the walk is about to call the callback for an entry
AtEntry == pc = "walk" /\ todo # <<>>

\* the entry the callback is called for next lies below the root and matches
\* a rule of the ignore file, with filtering on
NextEntryIgnored ==
    /\ AtEntry
    /\ ~Head(todo).err
    /\ ~options.NoGitignore
    /\ Head(todo).rel # <<>>
    /\ IsIgnored(WrittenPatterns, GitRelPath(gitPrefix, Head(todo).rel), Head(todo).isDir)

\* C21: the walk step of an entry excluded by the ignore rules leaves the
\* ScanResult as it was: no record, no entry of Errors, both totals unchanged
C21_ExcludedEntryLeavesResult ==
    [][NextEntryIgnored =>
          /\ result'.Files = result.Files
          /\ result'.Errors = result.Errors
          /\ result'.TotalFiles = result.TotalFiles
          /\ result'.TotalLines = result.TotalLines
          /\ result' = result]_vars

\* a returned scan that passed over the file b.txt for the rule b.txt and
\* recorded its neighbour
C21_Witness ==
    /\ ScanReturned
    /\ ~options.NoGitignore
    /\ gi.patterns = <<nB>>
    /\ {nA, nB} \subseteq fsTree
    /\ Recorded(nA)
    /\ ~Recorded(nB)
    /\ result.Errors = <<>>
    /\ result.TotalFiles = Len(result.Files) - Cardinality({i \in FileIdx : result.Files[i].IsDir})

\* the callback is called next with the error of a directory that could not
\* be listed
NextEntryFailed == AtEntry /\ Head(todo).err

\* C22: the callback invoked with an error appends one warning to Errors and
\* nothing to Files, changes no total and does not end the walk: the entries
\* still to be visited stay so
C22_EnumerationFailureIsWarning ==
    [][NextEntryFailed =>
          /\ result'.Errors = Append(result.Errors, Warning("access", Head(todo).rel))
          /\ result'.Files = result.Files
          /\ result'.TotalFiles = result.TotalFiles
          /\ result'.TotalLines = result.TotalLines
          /\ pc' = "walk"
          /\ todo' = Tail(todo)]_vars

\* a returned scan in which the directory build could not be listed and the
\* entries after it were visited
C22_Witness ==
    /\ ScanReturned
    /\ {nB, pBuildX, pSrcBuildO} \subseteq fsTree
    /\ WarningsAbout("access", nBuild) # {}
    /\ Recorded(nBuild)
    /\ ~Recorded(pBuildX)
    /\ \E i, j \in FileIdx :
         /\ result.Files[i].RelativePath = nBuild
         /\ result.Files[j].RelativePath = pSrcBuildO
         /\ i < j

----------------------------------------------------------------------------
(* The record of the scan root *)

\* C23: in the result of a successful scan the first record is the record of
\* the scan root, a directory with the empty RelativePath, whatever the ignore
\* rules say about it; every other record has a non-empty RelativePath that no
\* other record has
C23_RootRecordFirstPathsUnique ==
    pc \notin {"start", "walk", "failed"} =>
        /\ result.Files # <<>>
        /\ result.Files[1].RelativePath = <<>>
        /\ result.Files[1].Path = RootPath
        /\ result.Files[1].IsDir
        /\ Cardinality({i \in FileIdx : result.Files[i].RelativePath = <<>>}) = 1
        /\ \A i, j \in FileIdx :
              result.Files[i].RelativePath = result.Files[j].RelativePath => i = j

\* the scan of the subdirectory src under the rule *: the rule matches the
\* path src of the scan root, and the root is recorded all the same
C23_Witness ==
    /\ ScanReturned
    /\ gitPrefix = nSrc
    /\ ~options.NoGitignore
    /\ gi.patterns = <<<<"*">>>>
    /\ IsIgnored(gi.patterns, GitRelPath(gitPrefix, <<>>), TRUE)
    /\ fsTree # {}
    /\ Len(result.Files) = 1
    /\ result.Files[1].RelativePath = <<>>

----------------------------------------------------------------------------
(* The file handles of readFileContent during a walk *)

MaxFilesRead == 3

\* the bytes of the files the walk reads one after another
HandleFiles == {<<>>, <<"a", "\n">>, <<"a", "\n", "a">>}

\* the deferred Close run only when readFileContent returns without an error
CloseOnSuccessOnly(handles, file, err) == IF err THEN handles ELSE handles \ {file}

\* defer file.Close(): the handle is released when readFileContent returns,
\* with or without an error
DeferredClose(handles, file, err) == handles \ {file}

\* the call frame: the function running, the number of the file it reads, the
\* lines scanned, the handles the process holds, how the reads so far ended
Frame(fn, file, scanned, err, handles, ended) ==
    [fn |-> fn, file |-> file, scanned |-> scanned, err |-> err,
     handles |-> handles, ended |-> ended]

InitHandles ==
    /\ fsTree = {}
    /\ ignoreFile = [state |-> "missing", bytes |-> <<>>]
    /\ gitPrefix = <<>>
    /\ options = DefaultScanOptions
    /\ gi = NilGitIgnore
    /\ faults = 0
    /\ todo \in SeqsUpTo(HandleFiles, MaxFilesRead)
    /\ pc = "next"
    /\ result = NewScanResult
    /\ call = Frame("none", 1, 0, FALSE, {}, <<>>)

\* the callback calls readFileContent: os.Open succeeds and the handle is
\* held, or fails and readFileContent returns at once
OpenFile ==
    /\ pc = "next"
    /\ todo # <<>>
    /\ \/ /\ call' = Frame("readFileContent", call.file, 0, FALSE,
                          call.handles \cup {call.file}, call.ended)
          /\ pc' = "scan"
          /\ todo' = todo
       \/ /\ call' = Frame("none", call.file + 1, 0, TRUE, call.handles,
                          Append(call.ended, "open failed"))
          /\ pc' = "next"
          /\ todo' = Tail(todo)
    /\ UNCHANGED <<fsTree, ignoreFile, gitPrefix, options, gi, faults, result>>

\* bufScanner.Scan() returns true: one more line is written
ScanLine ==
    /\ pc = "scan"
    /\ call.scanned < Len(ScanLines(Head(todo)))
    /\ call' = [call EXCEPT !.scanned = @ + 1]
    /\ UNCHANGED <<fsTree, ignoreFile, gitPrefix, options, gi, todo, faults, result, pc>>

\* bufScanner.Scan() returns false: at the end of the file, or at any point
\* with an error of the read
ScanStops ==
    /\ pc = "scan"
    /\ \/ call.scanned = Len(ScanLines(Head(todo))) /\ call' = [call EXCEPT !.err = FALSE]
       \/ call' = [call EXCEPT !.err = TRUE]
    /\ pc' = "return"
    /\ UNCHANGED <<fsTree, ignoreFile, gitPrefix, options, gi, todo, faults, result>>

\* readFileContent returns: the deferred Close runs, and the walk moves on
ReturnFromRead ==
    /\ pc = "return"
    /\ call' = Frame("none", call.file + 1, 0, call.err,
                     DeferredClose(call.handles, call.file, call.err),
                     Append(call.ended, IF call.err THEN "read failed" ELSE "read"))
    /\ todo' = Tail(todo)
    /\ pc' = "next"
    /\ UNCHANGED <<fsTree, ignoreFile, gitPrefix, options, gi, faults, result>>

\* no entry is left: the scan returns
WalkEnds ==
    /\ pc = "next"
    /\ todo = <<>>
    /\ pc' = "returned"
    /\ UNCHANGED <<fsTree, ignoreFile, gitPrefix, options, gi, todo, faults, result, call>>

NextHandles == OpenFile \/ ScanLine \/ ScanStops \/ ReturnFromRead \/ WalkEnds

SpecHandles == InitHandles /\ [][NextHandles]_vars

\* C24: at most one file is open at any time: only the file being read is, no
\* file is open between two entries, whether the read before ended well or
\* with an error, and none is open after the scan has returned
C24_AtMostOneFileOpen ==
    /\ Cardinality(call.handles) <= 1
    /\ pc \in {"scan", "return"} => call.handles = {call.file}
    /\ pc \in {"next", "returned"} => call.handles = {}

\* a scan has returned after a read that failed half way, a file that could
\* not be opened and a file read to its end
C24_Witness ==
    /\ pc = "returned"
    /\ call.handles = {}
    /\ \E i, j, k \in 1..Len(call.ended) :
         /\ call.ended[i] = "read failed"
         /\ call.ended[j] = "open failed"
         /\ call.ended[k] = "read"

----------------------------------------------------------------------------
(* What the annotation pass may change *)

\* the fields of a record other than TokenCount
SameButTokenCount(before, after) ==
    /\ after.Path = before.Path
    /\ after.RelativePath = before.RelativePath
    /\ after.IsDir = before.IsDir
    /\ after.Size = before.Size
    /\ after.Content = before.Content
    /\ after.Error = before.Error

\* processDirectory is about to run the annotation pass
AtAnnotation == pc = "tokens"

\* C25: the annotation pass starts when the walk has finished, and it leaves
\* RootPath, TotalFiles, TotalLines, Errors and the Path, RelativePath, IsDir,
\* Size, Content and Error of every record as they were; the tree of the
\* result that goes on to the formatter is the one rendered from the records
\* after the pass; and no step before the pass touches a token field
C25_AnnotationChangesTokenFieldsOnly ==
    [][/\ AtAnnotation =>
            /\ todo = <<>>
            /\ result'.RootPath = result.RootPath
            /\ result'.TotalFiles = result.TotalFiles
            /\ result'.TotalLines = result.TotalLines
            /\ result'.Errors = result.Errors
            /\ Len(result'.Files) = Len(result.Files)
            /\ \A i \in FileIdx : SameButTokenCount(result.Files[i], result'.Files[i])
            /\ pc' = "output"
            /\ result'.DirectoryTree = RegenerateDirectoryTree(result')
       /\ ~AtAnnotation =>
            /\ result'.TotalTokens = 0
            /\ \A i \in 1..Len(result'.Files) : result'.Files[i].TokenCount = 0
      ]_vars

\* a pass has annotated a file of a scan that had recorded a warning, lines
\* and a record with an error
C25_Witness ==
    /\ Annotated
    /\ ~call.err
    /\ result.TotalTokens > 0
    /\ result.TotalLines > 0
    /\ result.Errors # <<>>
    /\ \E i, j \in FileIdx :
         /\ result.Files[i].TokenCount > 0
         /\ result.Files[j].Error # "nil"

----------------------------------------------------------------------------
(* Termination of ScanDirectoryWithOptions *)

\* GetEntryPoint(rootPath) returns an error: the scan returns nil and the error
ScanRootUnresolved ==
    /\ pc = "start"
    /\ pc' = "failed"
    /\ call' = [fn |-> "GetEntryPoint", err |-> TRUE]
    /\ UNCHANGED <<fsTree, ignoreFile, gitPrefix, options, gi, todo, faults, result>>

NextScan == ScanRootUnresolved \/ ScanStart \/ WalkStep \/ ScanReturn

\* a step of the scan is possible: the value of ENABLED <<NextScan>>_vars,
\* since ScanStart can be taken at the start, and during the walk WalkStep
\* changes todo while an entry is left and ScanReturn changes pc when none is
Running == pc \in {"start", "walk"}

\* WF_vars(NextScan) with ENABLED <<NextScan>>_vars replaced by Running: the
\* scan is one synchronous call on one goroutine, so while a step of it is
\* possible a step is taken
WeakFairness == []<>(~Running) \/ []<><<NextScan>>_vars

SpecScan == Init /\ [][NextScan]_vars /\ WeakFairness

\* ScanDirectoryWithOptions has returned
ScanEnded == pc \in {"tokens", "output", "failed"}

\* the entries filepath.WalkDir has still to hand to the callback are distinct,
\* and none that it will hand over as an entry has been recorded before
EachEntryOnce ==
    /\ \A i, j \in 1..Len(todo) : i # j => todo[i].rel # todo[j].rel
    /\ \A k \in 1..Len(todo) : \A i \in FileIdx :
         ~todo[k].err => result.Files[i].RelativePath # todo[k].rel
    /\ \A i, j \in FileIdx :
         i # j => result.Files[i].RelativePath # result.Files[j].RelativePath

\* C26: every scan of a finite tree terminates; no entry is handed to the
\* callback as an entry more than once; the call ends with a ScanResult, the
\* walk having no entry left, or with a fatal error, which arises only from a
\* root that cannot be resolved or from a walk whose callback returned an error
C26_ScanTerminates ==
    /\ <>ScanEnded
    /\ [](EachEntryOnce /\ (ScanEnded /\ pc # "failed" => todo = <<>>))
    /\ [][pc' = "failed" =>
            \/ pc = "failed"
            \/ pc = "start" /\ call'.fn = "GetEntryPoint" /\ result' = NewScanResult
            \/ pc = "walk" /\ todo # <<>> /\
                 \E io \in IoChoices(Head(todo)) :
                     WalkFn(result, options, gi, gitPrefix, Head(todo), io,
                            FileBytes(Head(todo).rel, ignoreFile)).ret = "err"
       ]_vars

\* a scan has returned its result after a walk that pruned a directory,
\* recorded a nested file and met a directory it could not list, which the
\* callback was handed a second time
C26_Witness ==
    /\ ScanReturned
    /\ todo = <<>>
    /\ PrunedDirs # {}
    /\ \E i \in FileIdx : Len(Parts(result.Files[i].RelativePath)) > 1
    /\ \E d \in DirPaths :
         /\ Recorded(d)
         /\ Warning("access", d) \in {result.Errors[k] : k \in 1..Len(result.Errors)}

----------------------------------------------------------------------------
(* The hierarchy shown by the rendered tree *)

\* the number of spaces a line starts with
RECURSIVE LeadingSpaces(_)
LeadingSpaces(line) ==
    IF line = <<>> \/ line[1] # " " THEN 0 ELSE 1 + LeadingSpaces(Tail(line))

\* the depth a line is shown at: two spaces per level
LineDepth(line) == LeadingSpaces(line) \div 2

\* the nearest line before line k that is shown one level higher; 0 when
\* there is none
LineAbove(lines, k) ==
    LET above == {j \in 1..(k - 1) : LineDepth(lines[j]) = LineDepth(lines[k]) - 1}
    IN  IF above = {} THEN 0 ELSE CHOOSE j \in above : \A i \in above : i <= j

\* C27: in the rendered tree of records with distinct relative paths, for
\* every line at a depth d > 0 the nearest preceding line of depth d - 1 is
\* the line of the directory that holds the line's entry
C27_LineAboveIsParent ==
    (Rendered /\ DistinctPaths) =>
        LET lines == TextLines(result.DirectoryTree)
        IN  \A k \in 1..Len(lines) :
              LineDepth(lines[k]) > 0 =>
                /\ LineAbove(lines, k) # 0
                /\ \E q \in PathPrefixes :
                     /\ Len(Parts(q)) = LineDepth(lines[k]) + 1
                     /\ lines[k] = ExpectedLine(q)
                     /\ lines[LineAbove(lines, k)] = ExpectedLine(Dir(q))

----------------------------------------------------------------------------
(* countTokensInScanResult called twice *)

\* the second call has returned, and it ran on the result that a first call
\* had just annotated
Recounted == pc = "recounted" /\ call.annotated

\* C28: a second call of countTokensInScanResult on the result it has just
\* annotated leaves every TokenCount and TotalTokens at the values the first
\* call gave them: the total is computed anew, not added to
C28_CountTokensIdempotent ==
    Recounted =>
        /\ result.TotalTokens = call.before.TotalTokens
        /\ Len(result.Files) = Len(call.before.Files)
        /\ \A i \in FileIdx : result.Files[i].TokenCount = call.before.Files[i].TokenCount
        /\ result = call.before

\* a second successful call on a result with two counted files and a record
\* the loop passes over
C28_Witness ==
    /\ Recounted
    /\ ~call.err
    /\ result.TotalTokens > 0
    /\ \E i, j, k \in FileIdx :
         /\ i # j
         /\ result.Files[i].TokenCount > 0
         /\ result.Files[j].TokenCount > 0
         /\ MustSkip(result.Files[k])

----------------------------------------------------------------------------
(* Run with an output file: what the file holds *)

MaxSavedPaths == 3

\* the paths given to Run
PathNames == {"p", "q"}

\* what happens to a path: it is processed and saved; a check of Run rejects
\* it; processPath fails before the file is touched (the scan, the formatting
\* or MkdirAll fails); os.WriteFile cannot open the file; os.WriteFile fails
\* after it has opened and truncated the file
SaveFates == {"ok", "notexist", "procerr", "noopen", "partial"}

SavedPaths == [name : PathNames, fate : SaveFates]

\* formatter.Format(contextData): the context of a path, a text that names the
\* path in its File System Location section
Format(name) == <<"#", name, "\n">>

NoFile == [exists |-> FALSE, bytes |-> <<>>]

OldFile == [exists |-> TRUE, bytes |-> <<"o", "l", "d">>]

\* WriteFile opening the file with O_APPEND instead of O_TRUNC
WriteFileAppending(file, data, fate, written) ==
    IF fate = "noopen" THEN file
    ELSE IF fate = "partial"
    THEN [exists |-> TRUE, bytes |-> file.bytes \o SubSeq(data, 1, written)]
    ELSE [exists |-> TRUE, bytes |-> file.bytes \o data]

\* os.WriteFile(path, data, 0644): the file is opened with O_CREATE and
\* O_TRUNC, then written; a write that fails leaves the first bytes of data
WriteFile(file, data, fate, written) ==
    IF fate = "noopen" THEN file
    ELSE IF fate = "partial" THEN [exists |-> TRUE, bytes |-> SubSeq(data, 1, written)]
    ELSE [exists |-> TRUE, bytes |-> data]

\* one iteration of the loop of Run for a path, with OutputFile set: the path
\* reaches formatter.SaveToFile unless a check of Run or processPath fails first
SavePath(file, path, outputFile, written) ==
    IF ~outputFile \/ path.fate \in {"notexist", "procerr"} THEN file
    ELSE WriteFile(file, Format(path.name), path.fate, written)

InitSave ==
    /\ fsTree = {}
    /\ ignoreFile = [state |-> "missing", bytes |-> <<>>]
    /\ gitPrefix = <<>>
    /\ options = DefaultScanOptions
    /\ gi = NilGitIgnore
    /\ faults = 0
    /\ result = NewScanResult
    /\ pc = "main"
    /\ todo \in SeqsUpTo(SavedPaths, MaxSavedPaths)
    /\ \E outputFile \in BOOLEAN, file \in {NoFile, OldFile} :
         call = [fn |-> "none", outputFile |-> outputFile, initial |-> file,
                 file |-> file, done |-> <<>>, err |-> FALSE]

\* Run up to its loop: the test of the number of paths
RunStarts ==
    /\ pc = "main"
    /\ call' = [call EXCEPT !.fn = "Run", !.err = TooManyPaths(todo)]
    /\ pc' = IF TooManyPaths(todo) THEN "returned" ELSE "paths"
    /\ UNCHANGED <<fsTree, ignoreFile, gitPrefix, options, gi, todo, faults, result>>

\* one iteration of the loop of Run
RunIteration ==
    /\ pc = "paths"
    /\ todo # <<>>
    /\ \E written \in 0..(Len(Format(Head(todo).name)) - 1) :
         call' = [call EXCEPT
                    !.file = SavePath(@, Head(todo), call.outputFile, written),
                    !.done = Append(@, Head(todo))]
    /\ todo' = Tail(todo)
    /\ UNCHANGED <<fsTree, ignoreFile, gitPrefix, options, gi, faults, result, pc>>

\* the loop is over: Run returns nil
RunReturns ==
    /\ pc = "paths"
    /\ todo = <<>>
    /\ pc' = "returned"
    /\ UNCHANGED <<fsTree, ignoreFile, gitPrefix, options, gi, todo, faults, result, call>>

NextSave == RunStarts \/ RunIteration \/ RunReturns

SpecSave == InitSave /\ [][NextSave]_vars

\* the last of the paths processed so far whose processing succeeded; 0 when
\* there is none
LastSucceeded ==
    LET ok == {k \in 1..Len(call.done) : call.done[k].fate = "ok"}
    IN  IF ok = {} THEN 0 ELSE CHOOSE k \in ok : \A j \in ok : j <= k

\* the paths after k whose write failed after the file was truncated
TruncatedAfter(k) == {j \in (k + 1)..Len(call.done) : call.done[j].fate = "partial"}

\* what the file holds when it holds the context of the last path that succeeded
HoldsLastSucceeded ==
    call.file = IF LastSucceeded = 0 THEN call.initial
                ELSE [exists |-> TRUE, bytes |-> Format(call.done[LastSucceeded].name)]

\* C29 as stated: with an output file, after every path of the loop and
\* after Run the file holds exactly the context of the last path whose
\* processing succeeded
C29_FileHoldsLastSucceeded ==
    (call.fn = "Run" /\ call.outputFile /\ LastSucceeded # 0) => HoldsLastSucceeded

\* C29: with an output file, every path that succeeds replaces the content of
\* the file by its context, so after every path of the loop and after Run the
\* file holds exactly the context of the last path whose processing succeeded,
\* unless the write of a later path failed after os.WriteFile had truncated
\* the file: then the file holds a proper prefix of that path's context
C29_FileHoldsLastSucceededOrTruncated ==
    (call.fn = "Run" /\ call.outputFile) =>
        LET failed == TruncatedAfter(LastSucceeded)
        IN  IF failed = {} THEN HoldsLastSucceeded
            ELSE LET j == CHOOSE i \in failed : \A l \in failed : l <= i
                     data == Format(call.done[j].name)
                 IN  /\ call.file.exists
                     /\ Len(call.file.bytes) < Len(data)
                     /\ call.file.bytes = SubSeq(data, 1, Len(call.file.bytes))

\* Run has returned after saving the contexts of two different paths to a
\* file that held something else, a path that failed coming last
C29_Witness ==
    /\ pc = "returned"
    /\ call.outputFile
    /\ call.initial = OldFile
    /\ Len(call.done) = 3
    /\ call.done[1].fate = "ok" /\ call.done[2].fate = "ok"
    /\ call.done[1].name # call.done[2].name
    /\ call.done[3].fate = "procerr"
    /\ call.file.bytes = Format(call.done[2].name)

----------------------------------------------------------------------------
(* The path map of generateDirectoryTree on the records of its tests *)

MaxMapRecords == 3

nSame == <<"s", "a", "m", "e">>

\* the records of the tests: the root, a file, a directory, and a directory
\* and a file that share one path
PathMapRecords ==
    { TreeFile(<<>>, TRUE, 0),
      TreeFile(nTestTxt, FALSE, 0),
      TreeFile(nDir, TRUE, 0),
      TreeFile(nSame, TRUE, 0),
      TreeFile(nSame, FALSE, 0) }

\* make(map[string]bool): an allocated map without entries
MakeMap == [isNil |-> FALSE, entries |-> <<>>]

InitPathMap ==
    /\ ScanAtRest
    /\ pc = "records"
    /\ result \in {[NewScanResult EXCEPT !.Files = files] :
                     files \in SeqsUpTo(PathMapRecords, MaxMapRecords)}
    /\ call = NoCall

\* pathMap := make(map[string]bool), then the loop over the records
CallBuildPathMap ==
    /\ pc = "records"
    /\ call' = [fn |-> "buildPathMap",
                pathMap |-> [MakeMap EXCEPT !.entries = buildPathMap(result.Files)]]
    /\ pc' = "mapped"
    /\ UNCHANGED <<fsTree, ignoreFile, gitPrefix, options, gi, todo, faults, result>>

NextPathMap == CallBuildPathMap

SpecPathMap == InitPathMap /\ [][NextPathMap]_vars

\* the path map has been built from result.Files
Mapped == pc = "mapped" /\ call.fn = "buildPathMap"

\* C30: the path map has one entry for each distinct non-empty RelativePath of
\* the records and none for the empty path; it is an allocated map, without
\* entries when there is no record; a path maps to the IsDir of its last
\* record, so directories map to true, files to false, and of two records
\* with one path the later decides
C30_PathMapLastRecordWins ==
    Mapped =>
        LET entries == call.pathMap.entries
        IN  /\ ~call.pathMap.isNil
            /\ DOMAIN entries = RecordPaths
            /\ <<>> \notin DOMAIN entries
            /\ result.Files = <<>> => DOMAIN entries = {}
            /\ \A i \in FileIdx :
                 LET file == result.Files[i]
                 IN  (/\ file.RelativePath # <<>>
                      /\ \A j \in FileIdx :
                           result.Files[j].RelativePath = file.RelativePath => j <= i)
                     => entries[file.RelativePath] = file.IsDir

\* the map of the root, a directory record of a path and then a file record
\* of the same path: one entry, and it says file
C30_Witness ==
    /\ Mapped
    /\ Len(result.Files) = 3
    /\ result.Files[1].RelativePath = <<>>
    /\ result.Files[2] = TreeFile(nSame, TRUE, 0)
    /\ result.Files[3] = TreeFile(nSame, FALSE, 0)
    /\ DOMAIN call.pathMap.entries = {nSame}
    /\ ~call.pathMap.entries[nSame]

====
